---- MODULE Spec2Model ----
(***************************************************************************)
(* Model of the forum Index Manager (cogs/index_manager.py): the grouping  *)
(* and sorting engine, the text renderer and chunker, and the resync       *)
(* engine that reconciles the messages of an index thread.                 *)
(*                                                                         *)
(* Text is modelled at the level the code works on it.  Names and tags are *)
(* strings.  A rendered text is the sequence of its lines (the text is the *)
(* lines joined by "\n"); a line is a record that keeps what the line      *)
(* shows and its length in characters, so that len(), split("\n"),         *)
(* split("\n# ") and strip() are computed as the code computes them.  A    *)
(* thread's jump_url is represented by its length and the thread id.       *)
(* Thread and tag names contain no newline, "[" or "]" and do not start or *)
(* end with white space.                                                   *)
(***************************************************************************)
EXTENDS Integers, Sequences, FiniteSets, TLC

VARIABLES
    forum,            \* the forum's threads (active + archived), in platform order
    definition,       \* the stored index definition of the index key, or NoDefinition
    available_tags,   \* forum.available_tags: the forum's tags and their emoji
    chunks,           \* result of the last build_index_text call
    group_chunks,     \* result of the last _build_tag_index_text call (group index)
    pc,               \* position of the running operation
    index_thread_ids, \* self.index_thread_ids[index_key], 0 when the key is absent
    last_chunks,      \* self.last_chunks.get(index_key, [])
    run,              \* the locals of the running post_or_edit_index call
    writes,           \* create, send, edit and delete calls issued by the last run
    failed,           \* external calls that failed in the last run
    failures,         \* external calls that failed since the start
    unchanged,        \* a run has ended and thread set and definition are as it left them
    compared,         \* the run that ended last got to the fingerprint comparison
    restarted,        \* as unchanged, but the process has restarted since that run
    data,             \* the content of the configuration file (index_config.json)
    sweep,            \* the locals of the running update_index_task iteration
    retry,            \* the locals of the running rate_limit_retry call, and its calls of func
    cycles,           \* the two post_or_edit_index calls that overlap on the index key
    view,             \* the GroupIndexForumEditView of a group index, and its stored forums
    approval,         \* the ApprovalView of a dice-challenge result and its button handlers
    dice_data,        \* the content of the dice-challenge data file, by character
    editor            \* the EditReaction cog: active_edits, its handlers, the clock

engine ==
    <<index_thread_ids, last_chunks, run, writes, failed, failures, unchanged, compared,
      restarted>>
ui == <<view, approval, dice_data, editor>>
other == <<retry, cycles, ui>>
vars ==
    <<forum, available_tags, definition, chunks, group_chunks, pc, engine, data, sweep, other>>

(***************************************************************************)
(* Strings                                                                 *)
(***************************************************************************)
UpperChars == "ABCDEFGHIJKLMNOPQRSTUVWXYZ"
LowerChars == "abcdefghijklmnopqrstuvwxyz"
\* the characters used, in code point order ("~" stands for an emoji glyph)
CodeOrder == " #()*-0123456789ABCDEFGHIJKLMNOPQRSTUVWXYZ[]abcdefghijklmnopqrstuvwxyz~"

PosIn(c, s) == CHOOSE i \in 1..Len(s) : SubSeq(s, i, i) = c
\* ord(c), up to the order of the characters
Ord == [c \in {SubSeq(CodeOrder, i, i) : i \in 1..Len(CodeOrder)} |-> PosIn(c, CodeOrder)]
UpperSet == {SubSeq(UpperChars, i, i) : i \in 1..Len(UpperChars)}
LowerSet == {SubSeq(LowerChars, i, i) : i \in 1..Len(LowerChars)}
LowerOf == [c \in UpperSet |-> SubSeq(LowerChars, PosIn(c, UpperChars), PosIn(c, UpperChars))]
UpperOf == [c \in LowerSet |-> SubSeq(UpperChars, PosIn(c, LowerChars), PosIn(c, LowerChars))]

RECURSIVE lower(_)
lower(s) ==
    IF s = "" THEN ""
    ELSE (IF Head(s) \in UpperSet THEN LowerOf[Head(s)] ELSE Head(s)) \o lower(Tail(s))

RECURSIVE upper(_)
upper(s) ==
    IF s = "" THEN ""
    ELSE (IF Head(s) \in LowerSet THEN UpperOf[Head(s)] ELSE Head(s)) \o upper(Tail(s))

\* str < str: lexicographic comparison by code point
RECURSIVE StrLess(_, _)
StrLess(a, b) ==
    IF b = "" THEN FALSE
    ELSE IF a = "" THEN TRUE
    ELSE IF Head(a) = Head(b) THEN StrLess(Tail(a), Tail(b))
    ELSE Ord[Head(a)] < Ord[Head(b)]

\* tuple comparison of two sort keys (not has_priority, name): False sorts
\* before True, then the names
SortKeyLess(k1, k2) ==
    \/ ~k1[1] /\ k2[1]
    \/ k1[1] = k2[1] /\ StrLess(k1[2], k2[2])

\* tuple comparison of two group sort keys, as records
\* (cls, prefix or text, first number, second number)
GroupKeyLess(k1, k2) ==
    \/ k1.cls < k2.cls
    \/ /\ k1.cls = k2.cls
       /\ \/ StrLess(k1.s, k2.s)
          \/ k1.s = k2.s /\ k1.a < k2.a
          \/ k1.s = k2.s /\ k1.a = k2.a /\ k1.b < k2.b

\* k1 < k2 for two keys of the kind the key function returns: a name, a
\* sort_key tuple or a sort_group_key tuple
KeyLess(kind, k1, k2) ==
    IF kind = "name" THEN StrLess(k1, k2)
    ELSE IF kind = "sort_key" THEN SortKeyLess(k1, k2)
    ELSE GroupKeyLess(k1, k2)

\* sorted(s, key=...): stable; keys[i] is the key of s[i]
sorted(s, keys, kind) ==
    LET n == Len(s)
        rank == [i \in 1..n |-> Cardinality({j \in 1..n :
                        \/ KeyLess(kind, keys[j], keys[i])
                        \/ (~KeyLess(kind, keys[i], keys[j]) /\ j < i)})]
    IN  [k \in 1..n |-> s[CHOOSE i \in 1..n : rank[i] = k - 1]]

\* the elements of a sequence, first occurrences only, in order (dict key order)
RECURSIVE FirstOccurrences(_)
FirstOccurrences(s) ==
    IF s = <<>> THEN <<>>
    ELSE LET r == FirstOccurrences(SubSeq(s, 1, Len(s) - 1))
             x == s[Len(s)]
         IN  IF \E i \in 1..Len(r) : r[i] = x THEN r ELSE Append(r, x)

RECURSIVE Flatten(_)
Flatten(ss) == IF ss = <<>> THEN <<>> ELSE Head(ss) \o Flatten(Tail(ss))

Range(s) == {s[i] : i \in 1..Len(s)}

\* the elements s[i] with flags[i], in order
Pick(s, flags) ==
    LET Flagged(i) == flags[i]
        idx == SelectSeq([i \in 1..Len(s) |-> i], Flagged)
    IN  [k \in 1..Len(idx) |-> s[idx[k]]]

(***************************************************************************)
(* Rendered lines and texts                                                *)
(***************************************************************************)
MaxChunkLen == 1900

BlankLine == [kind |-> "blank", key |-> "", tid |-> 0, len |-> 0]
HeaderLine(emoji_str, tag) ==
    [kind |-> "header", key |-> tag, tid |-> 0,
     len |-> Len("# ") + Len(emoji_str) + Len(tag)]
\* f"{marker}{entry_prefix}[{thread.name}]({thread.jump_url})"
EntryLine(marker, entry_prefix, thread) ==
    [kind |-> "entry", key |-> marker \o entry_prefix, tid |-> thread.id,
     len |-> Len(marker) + Len(entry_prefix) + Len("[") + Len(thread.name)
             + Len("](") + thread.url + Len(")")]
NoEntriesFound ==
    << [kind |-> "text", key |-> "No entries found.", tid |-> 0,
        len |-> Len("No entries found.")] >>

RECURSIVE SumLen(_)
SumLen(lines) == IF lines = <<>> THEN 0 ELSE Head(lines).len + SumLen(Tail(lines))

\* len("\n".join(lines))
TextLen(lines) == IF lines = <<>> THEN 0 ELSE SumLen(lines) + Len(lines) - 1

\* str.strip() of a text: leading and trailing empty lines go
RECURSIVE strip(_)
strip(lines) ==
    IF lines = <<>> THEN <<>>
    ELSE IF Head(lines).len = 0 THEN strip(Tail(lines))
    ELSE IF lines[Len(lines)].len = 0 THEN strip(SubSeq(lines, 1, Len(lines) - 1))
    ELSE lines

\* the bug "current_chunk = piece": what was accumulated is overwritten
JoinPieceOverwrite(current_chunk, piece) == piece

\* current_chunk += ("\n" if current_chunk else "") + piece
JoinPiece(current_chunk, piece) ==
    IF TextLen(current_chunk) = 0 THEN piece ELSE current_chunk \o piece

\* text.split("\n# "), each later section given its "# " back: a section
\* starts at each header line but the first line of the text
RECURSIVE SplitSections(_, _)
SplitSections(lines, acc) ==
    IF lines = <<>> THEN << acc >>
    ELSE IF Head(lines).kind = "header" /\ acc # <<>>
         THEN << acc >> \o SplitSections(Tail(lines), << Head(lines) >>)
         ELSE SplitSections(Tail(lines), Append(acc, Head(lines)))

\* text.split("\n")
SplitLines(lines) == [i \in 1..Len(lines) |-> << lines[i] >>]

\* the accumulation loop shared by every chunker of the file: pieces are
\* sections (sep = 2) or lines (sep = 1)
RECURSIVE Accumulate(_, _, _, _)
Accumulate(pieces, current_chunk, out, sep) ==
    IF pieces = <<>>
    THEN IF TextLen(current_chunk) > 0 THEN Append(out, strip(current_chunk)) ELSE out
    ELSE IF TextLen(current_chunk) + TextLen(Head(pieces)) + sep <= MaxChunkLen
         THEN Accumulate(Tail(pieces), JoinPiece(current_chunk, Head(pieces)), out, sep)
         ELSE Accumulate(Tail(pieces), Head(pieces),
                         IF TextLen(current_chunk) > 0
                         THEN Append(out, strip(current_chunk)) ELSE out,
                         sep)

OrDefault(cs) == IF cs = <<>> THEN << NoEntriesFound >> ELSE cs

\* _split_text_into_chunks(text)
split_text_into_chunks(text) == OrDefault(Accumulate(SplitLines(text), <<>>, <<>>, 1))

\* the section chunker of build_index_text and of the title-pattern and
\* character builders
SectionChunks(text) ==
    IF TextLen(text) <= MaxChunkLen
    THEN IF TextLen(text) > 0 THEN << text >> ELSE << NoEntriesFound >>
    ELSE OrDefault(Accumulate(SplitSections(text, <<>>), <<>>, <<>>, 2))

\* the line chunker of build_index_text (simple alphabetical list)
LineChunks(text) ==
    IF TextLen(text) <= MaxChunkLen
    THEN IF TextLen(text) > 0 THEN << text >> ELSE << NoEntriesFound >>
    ELSE OrDefault(Accumulate(SplitLines(text), <<>>, <<>>, 1))

(***************************************************************************)
(* Grouping and sorting engine, renderer                                   *)
(***************************************************************************)
\* DEFAULT_EXCLUDE_NAMES ("~" stands for the emoji glyph of the name)
DEFAULT_EXCLUDE_NAMES ==
    {"index", "~ Character Index", "~ Encyclopedia Index", "~ Resources Index"}

\* the bug of comparing the priority tag without lowering the names
has_priority_cased(thread, priority_tag) ==
    /\ priority_tag # ""
    /\ \E i \in 1..Len(thread.tags) : thread.tags[i] = priority_tag

\* priority_tag.lower() in [t.name.lower() for t in thread.applied_tags]
has_priority(thread, priority_tag) ==
    /\ priority_tag # ""
    /\ \E i \in 1..Len(thread.tags) : lower(thread.tags[i]) = lower(priority_tag)

\* the bug of comparing names without lowering them
sort_key_cased(thread, priority_tag) ==
    << \A i \in 1..Len(thread.tags) : lower(thread.tags[i]) # lower(priority_tag),
       thread.name >>

\* sort_key(thread): (not has_priority, thread.name.lower())
sort_key(thread, priority_tag) ==
    << ~has_priority(thread, priority_tag), lower(thread.name) >>

\* sorted(threads, key=sort_key)
sort_threads(threads, priority_tag) ==
    sorted(threads, [i \in 1..Len(threads) |-> sort_key(threads[i], priority_tag)], "sort_key")

\* the emoji of the first available tag named like the priority tag, or ""
priority_tag_emoji_of(tags_avail, priority_tag) ==
    LET hits == {i \in 1..Len(tags_avail) : lower(tags_avail[i].name) = lower(priority_tag)}
    IN  IF priority_tag = "" \/ hits = {} THEN ""
        ELSE tags_avail[CHOOSE i \in hits : \A j \in hits : i <= j].emoji

\* tag_emoji_map.get(tag.lower()): the last available tag of that name wins
tag_emoji_of(tags_avail, tag) ==
    LET hits == {i \in 1..Len(tags_avail) : lower(tags_avail[i].name) = lower(tag)}
    IN  IF hits = {} THEN ""
        ELSE tags_avail[CHOOSE i \in hits : \A j \in hits : i >= j].emoji

\* f"{emoji} " if emoji else ""
EmojiStr(emoji) == IF emoji = "" THEN "" ELSE emoji \o " "

entry_prefix_of(thread, tags_avail, priority_tag) ==
    IF has_priority(thread, priority_tag)
    THEN EmojiStr(priority_tag_emoji_of(tags_avail, priority_tag)) ELSE ""

\* the group key of one thread in tag mode (build_index_text, lines 358-372)
group_tag(thread, preferred_tags) ==
    LET tag_names == thread.tags
        IsPreferred(t) == \E i \in 1..Len(preferred_tags) : lower(preferred_tags[i]) = lower(t)
        matching_tags == SelectSeq(tag_names, IsPreferred)
    IN  IF preferred_tags # <<>>
        THEN IF matching_tags # <<>> THEN matching_tags[1] ELSE "Other"
        ELSE IF tag_names # <<>> THEN tag_names[1] ELSE "Other"

\* sorted(names, key=lambda x: x.lower())
sorted_lower(names) == sorted(names, [i \in 1..Len(names) |-> lower(names[i])], "name")

\* sorted_tags of build_index_text: preferred tags in order, then the others
sorted_tags_of(keys, preferred_tags) ==
    IF preferred_tags # <<>>
    THEN LET HasMatch(p) == \E i \in 1..Len(keys) : lower(keys[i]) = lower(p)
             Match(p) == keys[CHOOSE i \in 1..Len(keys) :
                                /\ lower(keys[i]) = lower(p)
                                /\ \A j \in 1..(i-1) : lower(keys[j]) # lower(p)]
             with_match == SelectSeq(preferred_tags, HasMatch)
             NotPreferred(t) ==
                 \A i \in 1..Len(preferred_tags) : lower(preferred_tags[i]) # lower(t)
             remaining == SelectSeq(keys, NotPreferred)
         IN  [i \in 1..Len(with_match) |-> Match(with_match[i])]
             \o sorted_lower(remaining)
    ELSE sorted_lower(keys)

\* the lines of one tag section: header, entries, blank line
tag_section(threads_in_tag, header, tags_avail, priority_tag) ==
    << header >>
    \o [i \in 1..Len(threads_in_tag) |->
          EntryLine("- ", entry_prefix_of(threads_in_tag[i], tags_avail, priority_tag),
                    threads_in_tag[i])]
    \o << BlankLine >>

\* the sections of the groups of `keys`, in order; tag_of[i] is the group
\* key of threads[i] (grouped[tag] is the threads of that key, in order)
tag_sections(threads, tag_of, keys, tags_avail, header_emoji, priority_tag, entry_priority) ==
    Flatten([k \in 1..Len(keys) |->
        tag_section(sort_threads(Pick(threads, [i \in 1..Len(threads) |-> tag_of[i] = keys[k]]),
                                 priority_tag),
                    HeaderLine(IF header_emoji THEN EmojiStr(tag_emoji_of(tags_avail, keys[k]))
                               ELSE "", keys[k]),
                    tags_avail, entry_priority)])

\* build_index_text, sort_by_tags branch: the text before chunking
tag_text(threads, tags_avail, preferred_tags, priority_tag) ==
    LET tag_of == [i \in 1..Len(threads) |-> group_tag(threads[i], preferred_tags)]
        keys == sorted_tags_of(FirstOccurrences(tag_of), preferred_tags)
    IN  strip(tag_sections(threads, tag_of, keys, tags_avail, TRUE, priority_tag, priority_tag))

\* build_index_text, simple alphabetical branch: the text before chunking
simple_text(threads, tags_avail, priority_tag) ==
    LET srt == sort_threads(threads, priority_tag)
    IN  [i \in 1..Len(srt) |->
            EntryLine("- ", entry_prefix_of(srt[i], tags_avail, priority_tag), srt[i])]

\* _build_tag_index_text (group indexes rendered as chunks): the text
tag_index_text(threads, preferred_tags, priority_tag) ==
    LET tag_of == [i \in 1..Len(threads) |-> group_tag(threads[i], preferred_tags)]
        keys == sorted_lower(FirstOccurrences(tag_of))
    IN  strip(tag_sections(threads, tag_of, keys, <<>>, FALSE, priority_tag, ""))

\* return [text] if len(text) <= 1900 else self._split_text_into_chunks(text)
text_or_chunks(text) ==
    IF TextLen(text) <= MaxChunkLen THEN << text >> ELSE split_text_into_chunks(text)

build_tag_index_text(threads, preferred_tags, priority_tag) ==
    text_or_chunks(tag_index_text(threads, preferred_tags, priority_tag))

\* _build_simple_index_text (group indexes rendered as chunks): the text
simple_index_text(threads, priority_tag) ==
    LET srt == sort_threads(threads, priority_tag)
    IN  [i \in 1..Len(srt) |-> EntryLine("- ", "", srt[i])]

build_simple_index_text(threads, priority_tag) ==
    text_or_chunks(simple_index_text(threads, priority_tag))

(***************************************************************************)
(* Title patterns                                                          *)
(***************************************************************************)
Digits == "0123456789"
DigitSet == {SubSeq(Digits, i, i) : i \in 1..Len(Digits)}
DigitVal == [c \in DigitSet |-> PosIn(c, Digits) - 1]
IsDigit(c) == c \in DigitSet
IsLetter(c) == c \in UpperSet \/ c \in LowerSet
At(s, i) == IF i >= 1 /\ i <= Len(s) THEN SubSeq(s, i, i) ELSE ""

\* sub in s
Contains(sub, s) ==
    \E i \in 1..(Len(s) - Len(sub) + 1) : SubSeq(s, i, i + Len(sub) - 1) = sub
StartsWith(s, pre) == Len(s) >= Len(pre) /\ SubSeq(s, 1, Len(pre)) = pre
EndsWith(s, suf) == Len(s) >= Len(suf) /\ SubSeq(s, Len(s) - Len(suf) + 1, Len(s)) = suf

\* str.strip() of a one-line string
RECURSIVE StripStr(_)
StripStr(s) ==
    IF s = "" THEN ""
    ELSE IF Head(s) = " " THEN StripStr(Tail(s))
    ELSE IF At(s, Len(s)) = " " THEN StripStr(SubSeq(s, 1, Len(s) - 1))
    ELSE s

\* int(s) of a string of digits
RECURSIVE ParseInt(_)
ParseInt(s) ==
    IF s = "" THEN 0
    ELSE ParseInt(SubSeq(s, 1, Len(s) - 1)) * 10 + DigitVal[At(s, Len(s))]

\* the end of the longest run of digits (letters) starting at i; i - 1 if none
RECURSIVE DigitRunEnd(_, _)
DigitRunEnd(s, i) == IF IsDigit(At(s, i)) THEN DigitRunEnd(s, i + 1) ELSE i - 1
RECURSIVE LetterRunEnd(_, _)
LetterRunEnd(s, i) == IF IsLetter(At(s, i)) THEN LetterRunEnd(s, i + 1) ELSE i - 1

\* a match of [A-Z]{2,4}\d+-\d+ (IGNORECASE) starting at i:
\* <<end of letters, end of day digits, end of date digits>>, or <<>>
DateMatchAt(s, i) ==
    LET le == LetterRunEnd(s, i)
        de == DigitRunEnd(s, le + 1)
        ne == DigitRunEnd(s, de + 2)
    IN  IF /\ le - i + 1 >= 2 /\ le - i + 1 <= 4
           /\ de >= le + 1 /\ At(s, de + 1) = "-" /\ ne >= de + 2
        THEN << le, de, ne >> ELSE <<>>

\* the leftmost of the positions where a search can match, or 0
Leftmost(starts) ==
    IF starts = {} THEN 0 ELSE CHOOSE i \in starts : \A j \in starts : i <= j

\* re.search of the date pattern: the leftmost start of a match, or 0
DateSearch(s) == Leftmost({i \in 1..Len(s) : DateMatchAt(s, i) # <<>>})

\* a match of -(\d+)(?:\s|$) starting at i
DashNumberAt(s, i) ==
    /\ At(s, i) = "-"
    /\ DigitRunEnd(s, i + 1) >= i + 1
    /\ At(s, DigitRunEnd(s, i + 1) + 1) \in {"", " "}

\* group 1 of the match that starts at i, "" for no match (i = 0)
DashNumberGroup(s, i) == IF i = 0 THEN "" ELSE SubSeq(s, i + 1, DigitRunEnd(s, i + 1))

\* re.search(r'-(\d+)(?:\s|$)', title): the digits of the leftmost match, or ""
DashNumberSearch(s) == DashNumberGroup(s, Leftmost({i \in 1..Len(s) : DashNumberAt(s, i)}))

LastDash(s) == CHOOSE i \in 1..Len(s) : At(s, i) = "-" /\ \A j \in (i+1)..Len(s) : At(s, j) # "-"
FirstDash(s) == CHOOSE i \in 1..Len(s) : At(s, i) = "-" /\ \A j \in 1..(i-1) : At(s, j) # "-"

\* user patterns that re cannot compile, and the user patterns modelled
InvalidRegexes == {"(", "[a-"}
\* re.search(pattern, title): the regex "(\d+)" is the one valid user pattern
\* modelled: its group 1 is the first run of digits
DigitsFrom(title, i) == IF i = 0 THEN <<>> ELSE << SubSeq(title, i, DigitRunEnd(title, i)) >>
\* the bug of taking any pattern for one that compiles
regex_group_key_unvalidated(title, pattern) ==
    DigitsFrom(title, Leftmost({i \in 1..Len(title) : IsDigit(At(title, i))}))

regex_group_key(title, pattern) ==
    IF pattern \in InvalidRegexes \/ pattern # "(\\d+)" THEN <<>>
    ELSE DigitsFrom(title, Leftmost({i \in 1..Len(title) : IsDigit(At(title, i))}))

\* the "date-suffix" key of a title whose date match starts at i (0: no match)
date_suffix_key(title, i) ==
    IF i # 0 THEN << upper(SubSeq(title, i, DateMatchAt(title, i)[3])) >> ELSE <<>>

\* the "date-number" key: the number of the date match that starts at i, else
\* the number after a dash
date_number_key(title, i, number) ==
    IF i # 0
    THEN << SubSeq(title, DateMatchAt(title, i)[2] + 2, DateMatchAt(title, i)[3]) >>
    ELSE IF number # "" THEN << number >>
    ELSE <<>>

\* _extract_title_group_key(title, pattern): << key >>, or << >> for None
extract_title_group_key(title, pattern) ==
    IF pattern = "" THEN <<>>
    ELSE IF lower(pattern) = "after-"
    THEN IF Contains("-", title)
         THEN << StripStr(SubSeq(title, LastDash(title) + 1, Len(title))) >> ELSE <<>>
    ELSE IF lower(pattern) = "before-"
    THEN IF Contains("-", title)
         THEN << StripStr(SubSeq(title, 1, FirstDash(title) - 1)) >> ELSE <<>>
    ELSE IF lower(pattern) = "date-suffix"
    THEN date_suffix_key(title, DateSearch(title))
    ELSE IF lower(pattern) = "date-number"
    THEN date_number_key(title, DateSearch(title), DashNumberSearch(title))
    ELSE regex_group_key(title, pattern)

\* "if group_key:" -- None and "" are both no key
HasKey(k) == k # <<>> /\ k[1] # ""

\* the sort_key stored with a group when its first thread is added
date_sort_key(name, pattern, i, group_key) ==
    IF lower(pattern) = "date-number" /\ i # 0
    THEN upper(SubSeq(name, i, DateMatchAt(name, i)[3]))
    ELSE group_key
title_sort_key(thread, pattern) ==
    date_sort_key(thread.name, pattern, DateSearch(thread.name),
                  extract_title_group_key(thread.name, pattern)[1])

\* the bug of ordering the groups by the text of their sort key
sort_group_key_as_text(sort_key_str) ==
    [cls |-> 3, s |-> lower(sort_key_str), a |-> 0, b |-> 0]

\* sort_group_key: the tuple a group is ordered by, as a record
\* (cls, prefix or text, first number, second number)
\* m: the date match at the start; last_run: the start of the digits the
\* string ends with; first_run: the start of its first digits (0: none)
group_key_tuple(sort_key_str, m, last_run, first_run) ==
    IF m # <<>>
    THEN [cls |-> 0, s |-> upper(SubSeq(sort_key_str, 1, m[1])),
          a |-> ParseInt(SubSeq(sort_key_str, m[2] + 2, m[3])),
          b |-> ParseInt(SubSeq(sort_key_str, m[1] + 1, m[2]))]
    ELSE IF last_run # 0
    THEN [cls |-> 1, s |-> "", b |-> 0,
          a |-> ParseInt(SubSeq(sort_key_str, last_run, Len(sort_key_str)))]
    ELSE IF first_run # 0
    THEN [cls |-> 2, s |-> "", b |-> 0,
          a |-> ParseInt(SubSeq(sort_key_str, first_run,
                                DigitRunEnd(sort_key_str, first_run)))]
    ELSE [cls |-> 3, s |-> lower(sort_key_str), a |-> 0, b |-> 0]
sort_group_key(sort_key_str) ==
    group_key_tuple(sort_key_str, DateMatchAt(sort_key_str, 1),
                    Leftmost({i \in 1..Len(sort_key_str) :
                                /\ IsDigit(At(sort_key_str, i))
                                /\ DigitRunEnd(sort_key_str, i) = Len(sort_key_str)}),
                    Leftmost({i \in 1..Len(sort_key_str) : IsDigit(At(sort_key_str, i))}))

\* sorted(grouped.items(), key=sort_group_key): the group keys in render
\* order; key_of[i] is the extracted key of threads[i], and a group's sort
\* key is the one of the first thread that entered it
sorted_groups(threads, key_of, pattern) ==
    LET grouped == Pick(threads, [i \in 1..Len(threads) |-> HasKey(key_of[i])])
        all_keys == Pick([i \in 1..Len(threads) |-> IF HasKey(key_of[i]) THEN key_of[i][1] ELSE ""],
                         [i \in 1..Len(threads) |-> HasKey(key_of[i])])
        keys == FirstOccurrences(all_keys)
        First(key) == grouped[CHOOSE i \in 1..Len(grouped) :
                                /\ all_keys[i] = key
                                /\ \A j \in 1..(i-1) : all_keys[j] # key]
    IN  sorted(keys, [k \in 1..Len(keys) |-> sort_group_key(title_sort_key(First(keys[k]), pattern))],
               "group_key")

\* _build_title_pattern_index_text: the text before chunking
\* the "Other" section of the threads without a key
ungrouped_section(ungrouped, tags_avail, priority_tag) ==
    IF ungrouped # <<>>
    THEN tag_section(sort_threads(ungrouped, priority_tag),
                     HeaderLine("", "Other"), tags_avail, priority_tag)
    ELSE <<>>

\* the sections of the groups, then of the ungrouped threads; key_of[i] is the
\* extracted key of threads[i]
title_groups_text(threads, key_of, tags_avail, pattern, priority_tag) ==
    strip(tag_sections(threads,
                       [i \in 1..Len(threads) |-> IF HasKey(key_of[i]) THEN key_of[i][1] ELSE ""],
                       sorted_groups(threads, key_of, pattern),
                       tags_avail, FALSE, priority_tag, priority_tag)
          \o ungrouped_section(Pick(threads, [i \in 1..Len(threads) |-> ~HasKey(key_of[i])]),
                               tags_avail, priority_tag))

title_pattern_text(threads, tags_avail, pattern, priority_tag) ==
    title_groups_text(threads,
                      [i \in 1..Len(threads) |-> extract_title_group_key(threads[i].name, pattern)],
                      tags_avail, pattern, priority_tag)

build_title_pattern_index_text(threads, tags_avail, pattern, priority_tag) ==
    SectionChunks(title_pattern_text(threads, tags_avail, pattern, priority_tag))

(***************************************************************************)
(* Character (fixed taxonomy) index                                        *)
(***************************************************************************)
\* COURT_MAP, in the order of the dict ("~" stands for one emoji code point)
COURT_MAP ==
    << << "night", "~ Night Court" >>, << "day", "~~ Day Court" >>,
       << "dawn", "~ Dawn Court" >>, << "spring", "~ Spring Court" >>,
       << "summer", "~ Summer Court" >>, << "autumn", "~ Autumn Court" >>,
       << "winter", "~~ Winter Court" >> >>
InactiveCourt == << "inactive", "Inactive Characters" >>

\* COURT_ORDER built from the preferred tags (lines 676-709)
\* the first court of COURT_MAP whose key is in the tag is appended (k: its
\* position, 0 for none), then the inactive court if the tag names it
with_court(acc, k) == IF k = 0 THEN acc ELSE Append(acc, COURT_MAP[k])
with_inactive(acc, tag_lower) ==
    IF Contains("inactive", tag_lower) /\ InactiveCourt \notin Range(acc)
    THEN Append(acc, InactiveCourt) ELSE acc
with_preferred(acc, tag_lower) ==
    with_inactive(with_court(acc, Leftmost({i \in 1..Len(COURT_MAP) :
                                              Contains(COURT_MAP[i][1], tag_lower)})),
                  tag_lower)

RECURSIVE court_order_from(_, _)
court_order_from(preferred_tags, acc) ==
    IF preferred_tags = <<>> THEN acc
    ELSE court_order_from(Tail(preferred_tags), with_preferred(acc, lower(Head(preferred_tags))))

COURT_ORDER(preferred_tags) ==
    IF preferred_tags # <<>> THEN court_order_from(preferred_tags, <<>>)
    ELSE Append(COURT_MAP, InactiveCourt)

\* a tag name normalized for court detection (lines 722-727)
without_prefix(t, prefix) ==
    IF StartsWith(t, prefix) THEN SubSeq(t, Len(prefix) + 1, Len(t)) ELSE t
without_suffix(t, suffix) ==
    IF EndsWith(t, suffix) THEN SubSeq(t, 1, Len(t) - Len(suffix)) ELSE t
normalize_tag(name) ==
    StripStr(without_suffix(without_prefix(lower(name), "the "), " court"))

tag_names_of(thread) == [i \in 1..Len(thread.tags) |-> normalize_tag(thread.tags[i])]
\* any(sub in tag_name for tag_name in tag_names)
any_tag_has(tag_names, sub) == \E i \in 1..Len(tag_names) : Contains(sub, tag_names[i])
is_council(thread) == any_tag_has(tag_names_of(thread), "high council")
is_inactive(thread) == any_tag_has(tag_names_of(thread), "inactive")

\* next((c for c, _ in COURT_ORDER if c in tag_names), None), "" for None
court_at(court_order, k) == IF k = 0 THEN "" ELSE court_order[k][1]
first_court(court_order, tag_names) ==
    court_at(court_order, Leftmost({i \in 1..Len(court_order) : court_order[i][1] \in tag_names}))
court_of(thread, court_order) == first_court(court_order, Range(tag_names_of(thread)))

\* where the grouping loop puts a thread: "inactive", "other", or its court
group_name(inactive, court) ==
    IF inactive THEN "inactive"
    ELSE IF court # "" THEN court
    ELSE "other"
character_group(thread, court_order) ==
    group_name(is_inactive(thread), court_of(thread, court_order))

character_entry(thread, tags_avail, priority_tag) ==
    EntryLine(IF is_council(thread) THEN "~ " ELSE "- ",
              entry_prefix_of(thread, tags_avail, priority_tag), thread)

\* sort_entries: the name is read back from the entry text between "[" and
\* "](" , which is the thread name for names without these characters
sort_entries(threads, priority_tag) == sort_threads(threads, priority_tag)

entries_of(threads, tags_avail, priority_tag) ==
    [i \in 1..Len(threads) |-> character_entry(threads[i], tags_avail, priority_tag)]

\* the entries of one court: council entries, then members
court_entries_of(council, members, tags_avail, priority_tag) ==
    entries_of(sort_entries(council, priority_tag), tags_avail, priority_tag)
    \o entries_of(sort_entries(members, priority_tag), tags_avail, priority_tag)

\* _build_character_index_text: the text before chunking
\* the section of one court of COURT_ORDER (lines 790-811)
court_section(court, court_entries) ==
    IF court[1] = "inactive" \/ court_entries = <<>> THEN <<>>
    ELSE << HeaderLine("", court[2]) >> \o court_entries \o << BlankLine >>

\* the section of the inactive, and of the other, characters (lines 813-831)
terminal_section(title, members, tags_avail, priority_tag, trailer) ==
    IF members # <<>>
    THEN << HeaderLine("", title) >>
         \o entries_of(sort_entries(members, priority_tag), tags_avail, priority_tag)
         \o trailer
    ELSE <<>>

\* the sections in render order; group_of[i] is the group of threads[i] and
\* council[i] tells whether it carries the leadership tag
character_sections(threads, tags_avail, priority_tag, court_order, group_of, council) ==
    Flatten([k \in 1..Len(court_order) |->
                court_section(court_order[k],
                    court_entries_of(
                        Pick(threads, [i \in 1..Len(threads) |->
                                          group_of[i] = court_order[k][1] /\ council[i]]),
                        Pick(threads, [i \in 1..Len(threads) |->
                                          group_of[i] = court_order[k][1] /\ ~council[i]]),
                        tags_avail, priority_tag))])
    \o terminal_section("Inactive Characters",
                        Pick(threads, [i \in 1..Len(threads) |-> group_of[i] = "inactive"]),
                        tags_avail, priority_tag, << BlankLine >>)
    \o terminal_section("Other",
                        Pick(threads, [i \in 1..Len(threads) |-> group_of[i] = "other"]),
                        tags_avail, priority_tag, <<>>)

\* the sections under a court order
character_lines(threads, tags_avail, priority_tag, court_order) ==
    character_sections(threads, tags_avail, priority_tag, court_order,
                       [i \in 1..Len(threads) |-> character_group(threads[i], court_order)],
                       [i \in 1..Len(threads) |-> is_council(threads[i])])

character_text(threads, tags_avail, preferred_tags, priority_tag) ==
    strip(character_lines(threads, tags_avail, priority_tag, COURT_ORDER(preferred_tags)))

build_character_index_text(threads, tags_avail, preferred_tags, priority_tag) ==
    SectionChunks(character_text(threads, tags_avail, preferred_tags, priority_tag))

(***************************************************************************)
(* build_index_text                                                        *)
(***************************************************************************)
\* the threads handed to grouping (lines 329-342): active, then archived,
\* without the reserved names and without the cached index thread
collect_threads(forum_threads, index_thread_id) ==
    LET IsActive(t) == ~t.archived
        IsArchived(t) == t.archived
        all_threads == SelectSeq(forum_threads, IsActive) \o SelectSeq(forum_threads, IsArchived)
        Kept(t) == /\ lower(t.name) \notin {lower(n) : n \in DEFAULT_EXCLUDE_NAMES}
                   /\ (index_thread_id = 0 \/ t.id # index_thread_id)
    IN  SelectSeq(all_threads, Kept)

\* the grouping mode build_index_text dispatches to (lines 347-355)
ModeOf(config) ==
    IF config.use_character_sorting THEN "character"
    ELSE IF config.sort_by_title_pattern /\ config.title_grouping_pattern # "" THEN "title"
    ELSE IF config.sort_by_tags THEN "tag"
    ELSE "none"

\* the text build_index_text renders for the collected threads, before chunking
index_text(threads, tags_avail, config) ==
    IF threads = <<>> THEN <<>>
    ELSE IF ModeOf(config) = "character"
    THEN character_text(threads, tags_avail, config.preferred_tags, config.priority_tag)
    ELSE IF ModeOf(config) = "title"
    THEN title_pattern_text(threads, tags_avail, config.title_grouping_pattern,
                            config.priority_tag)
    ELSE IF ModeOf(config) = "tag"
    THEN tag_text(threads, tags_avail, config.preferred_tags, config.priority_tag)
    ELSE simple_text(threads, tags_avail, config.priority_tag)

\* the chunking of lines 485-522: by sections when the text is grouped, by
\* lines when it is one list
inline_chunks(text, by_sections) ==
    IF by_sections THEN SectionChunks(text) ELSE LineChunks(text)

\* the text lines 357-483 render themselves
inline_text(threads, tags_avail, config) ==
    IF config.sort_by_tags
    THEN tag_text(threads, tags_avail, config.preferred_tags, config.priority_tag)
    ELSE simple_text(threads, tags_avail, config.priority_tag)

\* build_index_text once the threads are collected
build_chunks_of(threads, tags_avail, config) ==
    IF threads = <<>> THEN << NoEntriesFound >>
    ELSE IF ModeOf(config) = "character"
    THEN build_character_index_text(threads, tags_avail, config.preferred_tags,
                                    config.priority_tag)
    ELSE IF ModeOf(config) = "title"
    THEN build_title_pattern_index_text(threads, tags_avail,
                                        config.title_grouping_pattern, config.priority_tag)
    ELSE inline_chunks(inline_text(threads, tags_avail, config),
                       config.sort_by_tags \/ config.sort_by_title_pattern)

build_index_text(forum_threads, tags_avail, config, index_thread_id) ==
    build_chunks_of(collect_threads(forum_threads, index_thread_id), tags_avail, config)

(***************************************************************************)
(* rate_limit_retry (core/utils.py)                                        *)
(*                                                                         *)
(* retry.calls lists what each call of func did: "ok", or the error it     *)
(* raised.  An error is a discord.HTTPException with a status, or another  *)
(* exception; both have a text, and a 429 may carry retry_after (0: none). *)
(***************************************************************************)
MaxRetries == 3
HttpError(status, retry_after, text) ==
    [http |-> TRUE, status |-> status, retry_after |-> retry_after, text |-> text]
OtherError(text) == [http |-> FALSE, status |-> 0, retry_after |-> 0, text |-> text]

\* the errors func raises: rate limits (with and without retry_after, and
\* one reported by a lower layer), a missing message, a timeout, and a
\* lookup failure whose text quotes an id
FuncErrors ==
    {HttpError(429, 0, "429 Too Many Requests"), HttpError(429, 5, "429 Too Many Requests"),
     HttpError(429, 100, "429 Too Many Requests"), HttpError(404, 0, "404 Not Found"),
     OtherError("Rate limit exceeded"), OtherError("Timeout"),
     OtherError("No message 1429")}
Ok == OtherError("")

NoRetry ==
    [state |-> "idle", max_retries |-> 0, base_delay |-> 0, max_delay |-> 0,
     attempt |-> 0, calls |-> <<>>, delay |-> 0]

Min(a, b) == IF a <= b THEN a ELSE b

\* the except clauses: is the error retried?
retried(e) ==
    IF e.http THEN e.status = 429
    ELSE Contains("rate limit", lower(e.text)) \/ Contains("429", lower(e.text))

\* the delay before the next attempt
delay_of(e, attempt, base_delay, max_delay) ==
    IF e.http /\ e.retry_after # 0 THEN Min(e.retry_after, max_delay)
    ELSE Min(base_delay * (2 ^ attempt), max_delay)

frame_retry ==
    <<forum, available_tags, definition, chunks, group_chunks, pc, engine, data, sweep, cycles,
      ui>>

\* rate_limit_retry(func, max_retries, base_delay, max_delay) is called
RetryCall ==
    /\ retry.state \in {"idle", "returned", "raised"}
    /\ \E m \in 0..MaxRetries, b \in {1, 2}, d \in {3, 60} :
          retry' = [NoRetry EXCEPT !.state = IF m = 0 THEN "raised" ELSE "calling",
                                   !.max_retries = m, !.base_delay = b, !.max_delay = d]
    /\ UNCHANGED frame_retry

\* one pass of the loop body: func is awaited and returns or raises
RetryAttempt ==
    /\ retry.state = "calling"
    /\ \E e \in FuncErrors \cup {Ok} :
          retry' =
             IF e = Ok THEN [retry EXCEPT !.calls = Append(@, e), !.state = "returned"]
             ELSE IF retried(e) /\ retry.attempt < retry.max_retries - 1
             THEN [retry EXCEPT !.calls = Append(@, e), !.state = "sleeping",
                                !.delay = delay_of(e, retry.attempt, retry.base_delay,
                                                   retry.max_delay)]
             ELSE [retry EXCEPT !.calls = Append(@, e), !.state = "raised"]
    /\ UNCHANGED frame_retry

\* await asyncio.sleep(delay) is over: continue
RetrySleep ==
    /\ retry.state = "sleeping"
    /\ retry' = [retry EXCEPT !.attempt = @ + 1, !.state = "calling", !.delay = 0]
    /\ UNCHANGED frame_retry

\* the locals of a call of post_or_edit_index that overlaps with another:
\* where it is, the thread ensure_index_thread gave it, the chunks it built,
\* whether it passed the comparison, and the threads and write calls it made
NoCycle ==
    [at |-> "idle", thread |-> 0, chunks |-> <<>>, passed |-> FALSE, created |-> 0,
     writes |-> 0]
Cycles == {1, 2}
NoCycles == [c \in Cycles |-> NoCycle]

(***************************************************************************)
(* The configuration store (IndexConfig)                                   *)
(*                                                                         *)
(* The file holds three dicts.  A dict is the sequence of its items in     *)
(* insertion order, the order json.load and json.dump keep.                *)
(***************************************************************************)
\* the file _ensure_config_file writes
EmptyData == [indexes |-> <<>>, character_forums |-> <<>>, group_indexes |-> <<>>]

\* d.get(key, default); d[key] = value; d.pop(key, None)
dict_has(items, key) == \E i \in 1..Len(items) : items[i].key = key
dict_get(items, key, default) ==
    IF dict_has(items, key)
    THEN items[CHOOSE i \in 1..Len(items) : items[i].key = key].value
    ELSE default
dict_set(items, key, value) ==
    IF dict_has(items, key)
    THEN [i \in 1..Len(items) |->
             IF items[i].key = key THEN [key |-> key, value |-> value] ELSE items[i]]
    ELSE Append(items, [key |-> key, value |-> value])
dict_pop(items, key) == SelectSeq(items, LAMBDA item : item.key # key)

\* the bug of a key without its separator
index_key_unseparated(guild_id, channel_id) == ToString(guild_id) \o ToString(channel_id)

\* f"{guild_id}:{forum_id}"
index_key(guild_id, channel_id) == ToString(guild_id) \o ":" \o ToString(channel_id)

\* get_index(...) of a key without a definition
None == [index_name |-> ""]

\* the dict add_index stores (the grouping options at their defaults)
index_definition(guild_id, forum_id, index_name) ==
    [guild_id |-> guild_id, forum_id |-> forum_id, index_name |-> index_name,
     index_thread_name |-> "~ " \o index_name \o " Index",
     intro_text |-> "~ Index of " \o index_name]

\* IndexConfig.add_index, remove_index, get_indexes, get_index: the file after
\* the call, or the value returned
IndexConfig_add_index(d, guild_id, forum_id, index_name) ==
    [d EXCEPT !.indexes = dict_set(@, index_key(guild_id, forum_id),
                                   index_definition(guild_id, forum_id, index_name))]
IndexConfig_remove_index(d, guild_id, forum_id) ==
    [d EXCEPT !.indexes = dict_pop(@, index_key(guild_id, forum_id))]
IndexConfig_get_indexes(d) == d.indexes
IndexConfig_get_index(d, guild_id, forum_id) ==
    dict_get(d.indexes, index_key(guild_id, forum_id), None)

\* add_character_forum, remove_character_forum, get_character_forums
get_character_forums(d, guild_id) == dict_get(d.character_forums, ToString(guild_id), <<>>)
add_character_forum(d, guild_id, forum_id) ==
    IF forum_id \in Range(get_character_forums(d, guild_id)) THEN d
    ELSE [d EXCEPT !.character_forums =
             dict_set(@, ToString(guild_id), Append(get_character_forums(d, guild_id), forum_id))]
forums_without(forums, forum_id) == SelectSeq(forums, LAMBDA f : f # forum_id)
remove_character_forum(d, guild_id, forum_id) ==
    IF forum_id \notin Range(get_character_forums(d, guild_id)) THEN d
    ELSE IF forums_without(get_character_forums(d, guild_id), forum_id) = <<>>
    THEN [d EXCEPT !.character_forums = dict_pop(@, ToString(guild_id))]
    ELSE [d EXCEPT !.character_forums =
             dict_set(@, ToString(guild_id),
                      forums_without(get_character_forums(d, guild_id), forum_id))]

\* add_group_index, remove_group_index, get_group_index
group_index_definition(guild_id, target_channel_id, group_index_name) ==
    [guild_id |-> guild_id, target_channel_id |-> target_channel_id,
     group_index_name |-> group_index_name,
     intro_text |-> "~ Group Index: " \o group_index_name]
add_group_index(d, guild_id, target_channel_id, group_index_name) ==
    [d EXCEPT !.group_indexes =
        dict_set(@, index_key(guild_id, target_channel_id),
                 group_index_definition(guild_id, target_channel_id, group_index_name))]
remove_group_index(d, guild_id, target_channel_id) ==
    [d EXCEPT !.group_indexes = dict_pop(@, index_key(guild_id, target_channel_id))]
get_group_index(d, guild_id, target_channel_id) ==
    dict_get(d.group_indexes, index_key(guild_id, target_channel_id), None)

\* the ids and names the calls are made with, and the most indexes stored
GuildIds == {1, 11}
ChannelIds == {1, 11}
IndexNames == {"Lore", "Maps"}
MaxIndexes == 3

\* no sweep has run
NoSweep == [stage |-> "idle", indexes |-> <<>>, idx |-> 0, log |-> <<>>]

\* everything but the file
rest == <<forum, available_tags, definition, chunks, group_chunks, pc, engine, other>>

\* one call of the store, by any command or wizard
AddIndexCall(guild_id, forum_id, index_name) ==
    /\ Len(data.indexes) < MaxIndexes \/ dict_has(data.indexes, index_key(guild_id, forum_id))
    /\ data' = IndexConfig_add_index(data, guild_id, forum_id, index_name)
    /\ UNCHANGED <<rest, sweep>>
RemoveIndexCall(guild_id, forum_id) ==
    /\ data' = IndexConfig_remove_index(data, guild_id, forum_id)
    /\ UNCHANGED <<rest, sweep>>
AddCharacterForumCall(guild_id, forum_id) ==
    /\ data' = add_character_forum(data, guild_id, forum_id)
    /\ UNCHANGED <<rest, sweep>>
RemoveCharacterForumCall(guild_id, forum_id) ==
    /\ data' = remove_character_forum(data, guild_id, forum_id)
    /\ UNCHANGED <<rest, sweep>>
AddGroupIndexCall(guild_id, target_channel_id, group_index_name) ==
    /\ data' = add_group_index(data, guild_id, target_channel_id, group_index_name)
    /\ UNCHANGED <<rest, sweep>>
RemoveGroupIndexCall(guild_id, target_channel_id) ==
    /\ data' = remove_group_index(data, guild_id, target_channel_id)
    /\ UNCHANGED <<rest, sweep>>

AddIndex == \E g \in GuildIds, f \in ChannelIds, n \in IndexNames : AddIndexCall(g, f, n)
RemoveIndex == \E g \in GuildIds, f \in ChannelIds : RemoveIndexCall(g, f)
AddCharacterForum == \E f \in ChannelIds : AddCharacterForumCall(1, f)
RemoveCharacterForum == \E f \in ChannelIds : RemoveCharacterForumCall(1, f)
AddGroupIndex == \E g \in GuildIds : AddGroupIndexCall(g, 11, "All")
RemoveGroupIndex == \E g \in GuildIds : RemoveGroupIndexCall(g, 11)

(***************************************************************************)
(* GroupIndexForumEditView                                                 *)
(* The view keeps current_forum_ids, a copy of the stored source_forum_ids *)
(* of the group index.  A ChannelSelect gives the handlers between one and *)
(* MaxValues distinct forum channels of the guild, in the order chosen.    *)
(***************************************************************************)
GuildForums == {1, 2, 3}
MaxValues == 2
Values == {v \in UNION {[1..n -> GuildForums] : n \in 1..MaxValues} : Cardinality(Range(v)) = Len(v)}

NoView == [open |-> FALSE, current_forum_ids |-> <<>>, source_forum_ids |-> <<>>, said |-> ""]

\* guild.get_channel(channel_id) is a forum channel
get_channel(channel_id) == channel_id \in GuildForums

\* list.remove(x): without the first x
list_remove(list, x) ==
    LET i == CHOOSE k \in 1..Len(list) : list[k] = x /\ \A j \in 1..(k - 1) : list[j] # x
    IN  SubSeq(list, 1, i - 1) \o SubSeq(list, i + 1, Len(list))

\* for x in ids[i..]: if x not in list: list.append(x)
RECURSIVE append_missing(_, _, _)
append_missing(list, ids, i) ==
    IF i > Len(ids) THEN list
    ELSE append_missing(IF ids[i] \in Range(list) THEN list ELSE Append(list, ids[i]), ids, i + 1)

\* the loop of _on_add_forums_select: the list, and the forums added
RECURSIVE add_selected(_, _, _, _)
add_selected(current, added, channel_ids, i) ==
    IF i > Len(channel_ids) THEN [current |-> current, added |-> added]
    ELSE IF get_channel(channel_ids[i]) /\ channel_ids[i] \notin Range(current)
         THEN add_selected(Append(current, channel_ids[i]), Append(added, channel_ids[i]),
                           channel_ids, i + 1)
         ELSE add_selected(current, added, channel_ids, i + 1)

\* the loop of _on_remove_forums_select: the list, and the forums removed
RECURSIVE remove_selected(_, _, _, _)
remove_selected(current, removed, channel_ids, i) ==
    IF i > Len(channel_ids) THEN [current |-> current, removed |-> removed]
    ELSE IF channel_ids[i] \in Range(current)
         THEN remove_selected(list_remove(current, channel_ids[i]),
                              IF get_channel(channel_ids[i]) THEN Append(removed, channel_ids[i])
                              ELSE removed,
                              channel_ids, i + 1)
         ELSE remove_selected(current, removed, channel_ids, i + 1)

\* the list after a remove selection that left nothing: the selected channels
\* are appended, then the removed forums
restored(current, channel_ids, removed) ==
    append_missing(append_missing(current, channel_ids, 1), removed, 1)

frame_view ==
    <<forum, available_tags, definition, chunks, group_chunks, pc, engine, data, sweep, retry,
      cycles, approval, dice_data, editor>>

\* the setup wizard stores a group index with the forums selected (at least one)
GroupIndexSetup ==
    /\ ~view.open
    /\ view.source_forum_ids = <<>>
    /\ \E v \in Values : view' = [view EXCEPT !.source_forum_ids = v, !.said = ""]
    /\ UNCHANGED frame_view

\* GroupIndexEditModal.on_submit shows the view for the stored forums
ViewOpen ==
    /\ ~view.open
    /\ view.source_forum_ids # <<>>
    /\ view' = [view EXCEPT !.open = TRUE, !.current_forum_ids = view.source_forum_ids,
                            !.said = ""]
    /\ UNCHANGED frame_view

_on_add_forums_select(channel_ids) ==
    /\ view.open
    /\ LET r == add_selected(view.current_forum_ids, <<>>, channel_ids, 1)
       IN  view' = [view EXCEPT !.current_forum_ids = r.current,
                                !.said = IF r.added = <<>> THEN "already in the index"
                                         ELSE "Added"]
    /\ UNCHANGED frame_view

_on_remove_forums_select(channel_ids) ==
    /\ view.open
    /\ LET r == remove_selected(view.current_forum_ids, <<>>, channel_ids, 1)
       IN  view' =
              IF r.removed = <<>>
              THEN [view EXCEPT !.current_forum_ids = r.current, !.said = "None in the index"]
              ELSE IF r.current = <<>>
              THEN [view EXCEPT !.current_forum_ids = restored(r.current, channel_ids, r.removed),
                                !.said = "Cannot remove all forums"]
              ELSE [view EXCEPT !.current_forum_ids = r.current, !.said = "Removed"]
    /\ UNCHANGED frame_view

\* Save and Finish: add_group_index with the list of the view, the view stops
_on_save ==
    /\ view.open
    /\ view' =
          IF view.current_forum_ids = <<>> THEN [view EXCEPT !.said = "Cannot save"]
          ELSE [view EXCEPT !.source_forum_ids = view.current_forum_ids, !.open = FALSE,
                            !.said = "Updated"]
    /\ UNCHANGED frame_view

AddForumsSelect == \E v \in Values : _on_add_forums_select(v)
RemoveForumsSelect == \E v \in Values : _on_remove_forums_select(v)


(***************************************************************************)
(* Dice challenges: ApprovalView                                           *)
(* A click reaches a handler while the buttons of the approval message are *)
(* enabled on the platform; they are disabled by the message.edit of a     *)
(* handler.  The handlers of two administrators interleave at their awaits.*)
(***************************************************************************)
Characters == {"Ann", "Bob"}
Admins == {1, 2}
MaxRequests == 2
HistoryKept == 10

NoStats ==
    [wins |-> 0, losses |-> 0, current_win_streak |-> 0, current_loss_streak |-> 0,
     total_games |-> 0, game_history |-> 0]
NoDiceData == [c \in Characters |-> NoStats]

NoApproval ==
    [requests |-> 0, winner |-> "", loser |-> "", disabled |-> TRUE, title |-> "",
     at |-> [a \in Admins |-> "idle"], first |-> "", records |-> 0, submitted |-> NoDiceData]

\* DiceChallenges._record_result(winner, loser) on the data of the file; a
\* character that is not in the file starts from zeros; game_history is the
\* length of the list, cut to the last HistoryKept games
won(stats) ==
    [stats EXCEPT !.wins = @ + 1, !.current_win_streak = @ + 1, !.current_loss_streak = 0,
                  !.total_games = @ + 1,
                  !.game_history = IF @ + 1 > HistoryKept THEN HistoryKept ELSE @ + 1]
lost(stats) ==
    [stats EXCEPT !.losses = @ + 1, !.current_loss_streak = @ + 1, !.current_win_streak = 0,
                  !.total_games = @ + 1,
                  !.game_history = IF @ + 1 > HistoryKept THEN HistoryKept ELSE @ + 1]
_record_result(d, winner, loser) ==
    LET d1 == [d EXCEPT ![winner] = won(@)]
    IN  [d1 EXCEPT ![loser] = lost(@)]

frame_approval ==
    <<forum, available_tags, definition, chunks, group_chunks, pc, engine, data, sweep, retry,
      cycles, view, editor>>

\* _send_approval_request: the approval message is sent with a new view
SendApprovalRequest ==
    /\ approval.requests < MaxRequests
    /\ approval.disabled
    /\ \A a \in Admins : approval.at[a] \in {"idle", "done"}
    /\ \E w \in Characters, l \in Characters :
          /\ w # l
          /\ approval' = [NoApproval EXCEPT !.requests = approval.requests + 1, !.winner = w,
                                            !.loser = l, !.disabled = FALSE, !.title = "Pending",
                                            !.submitted = dice_data]
    /\ UNCHANGED <<dice_data, frame_approval>>

\* an administrator clicks Approve: approve runs up to the defer of the response
ApproveClick(a) ==
    /\ ~approval.disabled
    /\ approval.at[a] = "idle"
    /\ approval' = [approval EXCEPT !.at[a] = "approve_deferred",
                                    !.first = IF @ = "" THEN "approve" ELSE @]
    /\ UNCHANGED <<dice_data, frame_approval>>

\* approve after the defer: _record_result, _get_streaks, up to the posts
ApproveRecord(a) ==
    /\ approval.at[a] = "approve_deferred"
    /\ dice_data' = _record_result(dice_data, approval.winner, approval.loser)
    /\ approval' = [approval EXCEPT !.at[a] = "approve_posting", !.records = @ + 1]
    /\ UNCHANGED frame_approval

\* approve after the posts: the buttons are disabled, the message is edited
ApproveEdit(a) ==
    /\ approval.at[a] = "approve_posting"
    /\ approval' = [approval EXCEPT !.at[a] = "done", !.disabled = TRUE, !.title = "Approved"]
    /\ UNCHANGED <<dice_data, frame_approval>>

\* an administrator clicks Reject: reject runs up to the defer of the response
RejectClick(a) ==
    /\ ~approval.disabled
    /\ approval.at[a] = "idle"
    /\ approval' = [approval EXCEPT !.at[a] = "reject_deferred",
                                    !.first = IF @ = "" THEN "reject" ELSE @]
    /\ UNCHANGED <<dice_data, frame_approval>>

\* reject after the defer: the buttons are disabled, the message is edited
RejectEdit(a) ==
    /\ approval.at[a] = "reject_deferred"
    /\ approval' = [approval EXCEPT !.at[a] = "done", !.disabled = TRUE, !.title = "Rejected"]
    /\ UNCHANGED <<dice_data, frame_approval>>

(***************************************************************************)
(* EditReaction                                                            *)
(* One administrator.  The clock counts ticks; a session lasts Lifetime    *)
(* ticks (15 minutes).  A session carries the number of the reaction that  *)
(* started it.  The handlers interleave at their awaits.                   *)
(***************************************************************************)
MaxSessions == 2
MaxReplies == 3
MaxTime == 3
Lifetime == 1
Replies == {1, 2}
MessageIds == {7}

NoSession == [session |-> 0, message_id |-> 0, expires_at |-> 0]
NoReply == [at |-> "idle", edit_info |-> NoSession, content |-> "", arrived |-> 0]
NoEditor ==
    [active_edits |-> NoSession, now |-> 0, started |-> 0, replied |-> 0,
     reaction |-> [at |-> "idle", message_id |-> 0],
     reply |-> [r \in Replies |-> NoReply],
     cleanup |-> [at |-> "idle"],
     edits |-> <<>>]

frame_editor ==
    <<forum, available_tags, definition, chunks, group_chunks, pc, engine, data, sweep, retry,
      cycles, view, approval, dice_data>>

\* datetime.utcnow() advances
Tick ==
    /\ editor.now < MaxTime
    /\ editor' = [editor EXCEPT !.now = @ + 1]
    /\ UNCHANGED frame_editor

\* on_raw_reaction_add for a pencil of the administrator on a thread message,
\* up to the fetches
ReactionAdd ==
    /\ editor.reaction.at = "idle"
    /\ editor.started < MaxSessions
    /\ \E m \in MessageIds :
          editor' = [editor EXCEPT !.reaction = [at |-> "fetching", message_id |-> m]]
    /\ UNCHANGED frame_editor

\* on_raw_reaction_add after the fetches and the direct message: the session
\* is stored under the user id
ReactionStore ==
    /\ editor.reaction.at = "fetching"
    /\ editor' = [editor EXCEPT !.active_edits = [session |-> editor.started + 1,
                                                  message_id |-> editor.reaction.message_id,
                                                  expires_at |-> editor.now + Lifetime],
                                !.started = @ + 1,
                                !.reaction = [at |-> "idle", message_id |-> 0]]
    /\ UNCHANGED frame_editor

\* on_message for a direct message of the user, up to its first await
ReplyArrives(r, content) ==
    /\ editor.reply[r].at = "idle"
    /\ editor.replied < MaxReplies
    /\ LET edit_info == editor.active_edits
           mine == [at |-> "idle", edit_info |-> edit_info, content |-> content,
                    arrived |-> editor.now]
       IN  editor' =
              IF edit_info = NoSession
              THEN [editor EXCEPT !.replied = @ + 1]
              ELSE IF editor.now > edit_info.expires_at
              THEN [editor EXCEPT !.replied = @ + 1, !.reply[r] = [mine EXCEPT !.at = "expired"]]
              ELSE IF content = ""
              THEN [editor EXCEPT !.replied = @ + 1, !.reply[r] = [mine EXCEPT !.at = "empty"]]
              ELSE [editor EXCEPT !.replied = @ + 1, !.reply[r] = [mine EXCEPT !.at = "fetching"]]
    /\ UNCHANGED frame_editor

\* on_message after the fetches: target_message.edit succeeds or raises
ReplyEdit(r) ==
    /\ editor.reply[r].at = "fetching"
    /\ \E ok \in BOOLEAN :
          editor' =
             IF ok
             THEN [editor EXCEPT !.reply[r].at = "applied",
                                 !.edits = Append(@, [session |-> editor.reply[r].edit_info.session,
                                                      message_id |-> editor.reply[r].edit_info.message_id,
                                                      late |-> editor.reply[r].arrived >
                                                                 editor.reply[r].edit_info.expires_at])]
             ELSE [editor EXCEPT !.reply[r].at = "failed"]
    /\ UNCHANGED frame_editor

\* on_message after its last await: self.active_edits.pop(message.author.id)
ReplyPop(r) ==
    /\ editor.reply[r].at \in {"expired", "empty", "applied", "failed"}
    /\ editor' = [editor EXCEPT !.active_edits = NoSession,
                                !.reply[r] = [@ EXCEPT !.at = "idle"]]
    /\ UNCHANGED frame_editor

\* cleanup_task finds the session of the user expired, up to user.send
CleanupExpired ==
    /\ editor.cleanup.at = "idle"
    /\ editor.active_edits # NoSession
    /\ editor.active_edits.expires_at < editor.now
    /\ editor' = [editor EXCEPT !.cleanup.at = "sending"]
    /\ UNCHANGED frame_editor

\* cleanup_task after user.send: self.active_edits.pop(uid)
CleanupPop ==
    /\ editor.cleanup.at = "sending"
    /\ editor' = [editor EXCEPT !.active_edits = NoSession, !.cleanup.at = "idle"]
    /\ UNCHANGED frame_editor

(***************************************************************************)
(* Inputs of the builders                                                  *)
(***************************************************************************)
MaxThreads == 3
ShortUrl == 85
LongUrl == 939

NoDefinition == [index_thread_name |-> ""]

Definition(tags, pref, chr, prio, ttl, pat, intro) ==
    [index_thread_name |-> "Idx", intro_text |-> intro,
     sort_by_tags |-> tags, preferred_tags |-> pref, use_character_sorting |-> chr,
     priority_tag |-> prio, sort_by_title_pattern |-> ttl, title_grouping_pattern |-> pat]

\* the index definitions and the thread attributes the builders are run on,
\* by grouping mode
Attr(n, t, u) == [name |-> n, tags |-> t, url |-> u]

NoneDefinitions ==
    {Definition(FALSE, <<>>, FALSE, prio, FALSE, "", "intro") : prio \in {"", "pin"}}
NoneAttrs ==
    {Attr("a", <<>>, LongUrl), Attr("B", << "Pin" >>, LongUrl), Attr("c", <<>>, ShortUrl),
     Attr("B", <<>>, ShortUrl), Attr("a", << "Pin" >>, ShortUrl), Attr("c", << "Pin" >>, LongUrl)}

TagDefinitions ==
    {Definition(TRUE, pref, FALSE, "pin", FALSE, "", "intro") :
        pref \in {<<>>, << "night" >>, << "Zed", "night" >>, << "night", "Night" >>}}
TagAttrs ==
    {Attr("a", << "Night" >>, LongUrl), Attr("B", << "Night" >>, LongUrl),
     Attr("B", << "night", "Pin" >>, ShortUrl), Attr("a", << "Zed", "Night" >>, ShortUrl),
     Attr("c", << "Pin", "Zed" >>, LongUrl), Attr("c", <<>>, ShortUrl),
     Attr("a", <<>>, LongUrl)}

TitleDefinitions ==
    {Definition(FALSE, <<>>, FALSE, "pin", TRUE, pat, "intro") :
        pat \in {"after-", "Before-", "date-number", "("}}
    \cup {Definition(TRUE, <<>>, FALSE, "pin", TRUE, "after-", "intro")}
TitleAttrs ==
    {Attr("a-1", <<>>, LongUrl), Attr("B-1", << "Pin" >>, LongUrl), Attr("B-1", <<>>, ShortUrl),
     Attr("c-x", <<>>, ShortUrl), Attr("a-2", << "Pin" >>, ShortUrl), Attr("d", <<>>, LongUrl),
     Attr("d", << "Pin" >>, ShortUrl)}

\* titles with a date code (letters, day, dash, number) and with a plain number
\* after a dash, grouped by the "date-number" pattern
DateDefinitions == {Definition(FALSE, <<>>, FALSE, "", TRUE, "date-number", "intro")}
DateAttrs ==
    {Attr("SD1-582", <<>>, ShortUrl), Attr("WD2-582", <<>>, ShortUrl),
     Attr("SD1-9", <<>>, ShortUrl), Attr("WD1-9", <<>>, ShortUrl),
     Attr("y-9", <<>>, ShortUrl), Attr("x-10", <<>>, ShortUrl)}

CharacterDefinitions ==
    {Definition(FALSE, pref, TRUE, "pin", FALSE, "", "intro") :
        pref \in {<<>>, << "Day Court", "night", "Inactive" >>, << "night", "Night Court" >>}}
CharacterAttrs ==
    {Attr("a", << "The Night Court" >>, LongUrl), Attr("B", << "night", "Pin" >>, LongUrl),
     Attr("c", << "High Council", "night" >>, ShortUrl), Attr("a", << "Day", "Pin" >>, ShortUrl),
     Attr("B", << "Inactive", "night" >>, LongUrl), Attr("a", << "Inactive", "Pin" >>, ShortUrl),
     Attr("c", <<>>, LongUrl), Attr("B", << "Pin" >>, ShortUrl)}

\* a forum of threads with the given attributes; thread i has id i
ForumOf(attrs) ==
    [i \in 1..Len(attrs) |->
        [id |-> i, name |-> attrs[i].name, tags |-> attrs[i].tags, url |-> attrs[i].url,
         archived |-> FALSE, messages |-> <<>>]]

Forums(Attrs) == UNION {{ForumOf(a) : a \in [1..n -> Attrs]} : n \in 0..MaxThreads}

\* forum.available_tags: every tag of the forum, with or without an emoji
AvailableTags(emoji) ==
    [i \in 1..4 |-> [name |-> << "Night", "night", "Zed", "Pin" >>[i], emoji |-> emoji]]

\* no post_or_edit_index call has run
NoRun ==
    [config |-> NoDefinition, thread |-> 0, messages |-> <<>>, i |-> 0, deleted |-> 0,
     second |-> FALSE, after_restart |-> FALSE, primed |-> FALSE, new_intro |-> FALSE]

(***************************************************************************)
(* Specification of the builders: the inputs are drawn, then built         *)
(***************************************************************************)
InitBuild ==
    /\ \/ definition \in NoneDefinitions /\ forum \in Forums(NoneAttrs)
       \/ definition \in TagDefinitions /\ forum \in Forums(TagAttrs)
       \/ definition \in TitleDefinitions /\ forum \in Forums(TitleAttrs)
       \/ definition \in DateDefinitions /\ forum \in Forums(DateAttrs)
       \/ definition \in CharacterDefinitions /\ forum \in Forums(CharacterAttrs)
    /\ available_tags \in {AvailableTags(""), AvailableTags("*")}
    /\ chunks = <<>>
    /\ group_chunks = <<>>
    /\ pc = "start"
    /\ index_thread_ids = 0
    /\ last_chunks = <<>>
    /\ run = NoRun
    /\ writes = 0
    /\ failed = 0
    /\ failures = 0
    /\ unchanged = FALSE
    /\ compared = FALSE
    /\ restarted = FALSE
    /\ data = EmptyData
    /\ sweep = NoSweep
    /\ retry = NoRetry
    /\ view = NoView
    /\ approval = NoApproval
    /\ dice_data = NoDiceData
    /\ editor = NoEditor
    /\ cycles = NoCycles

\* chunks = await self.build_index_text(forum, config)
BuildIndex ==
    /\ pc = "start"
    /\ chunks' = build_index_text(forum, available_tags, definition, 0)
    /\ pc' = "built"
    /\ UNCHANGED <<forum, available_tags, data, sweep, other, definition, group_chunks, engine>>

\* the text a group index renders for the threads, before chunking
group_index_text(threads, tags_avail, config) ==
    IF ModeOf(config) = "character"
    THEN character_text(threads, tags_avail, config.preferred_tags, config.priority_tag)
    ELSE IF ModeOf(config) = "title"
    THEN title_pattern_text(threads, tags_avail, config.title_grouping_pattern,
                            config.priority_tag)
    ELSE IF ModeOf(config) = "tag"
    THEN tag_index_text(threads, config.preferred_tags, config.priority_tag)
    ELSE simple_index_text(threads, config.priority_tag)

\* _build_group_index_as_chunks (lines 918-947), before the forum names are
\* added: the chunks of a group index over the same threads and options
build_group_chunks(threads, tags_avail, config) ==
    IF config.use_character_sorting
    THEN build_character_index_text(threads, tags_avail, config.preferred_tags,
                                    config.priority_tag)
    ELSE IF config.sort_by_title_pattern /\ config.title_grouping_pattern # ""
    THEN build_title_pattern_index_text(threads, tags_avail, config.title_grouping_pattern,
                                        config.priority_tag)
    ELSE IF config.sort_by_tags
    THEN build_tag_index_text(threads, config.preferred_tags, config.priority_tag)
    ELSE build_simple_index_text(threads, config.priority_tag)

BuildGroupIndex ==
    /\ pc = "start"
    /\ collect_threads(forum, 0) # <<>>
    /\ group_chunks' = build_group_chunks(collect_threads(forum, 0), available_tags, definition)
    /\ pc' = "group_built"
    /\ UNCHANGED <<forum, available_tags, data, sweep, other, definition, chunks, engine>>

NextBuild == BuildIndex \/ BuildGroupIndex

SpecBuild == InitBuild /\ [][NextBuild]_vars

(***************************************************************************)
(* The resync engine: state, inputs, environment                           *)
(***************************************************************************)
WideUrl == 943
MaxSystemMessages == 1
MaxFailures == 1

\* a message content that is a plain string: one line of text
Text(str) == << [kind |-> "text", key |-> str, tid |-> 0, len |-> Len(str)] >>
Message(type, content) == [type |-> type, content |-> content]
Placeholder == Text("...")

\* IndexConfig.add_index: the stored definition, with the defaults of the
\* thread name and the intro text ("~" stands for the emoji glyph)
add_index(index_name, sort_by_tags, preferred_tags, index_thread_name, intro_text, priority_tag, sort_by_title_pattern, title_grouping_pattern) ==
    [index_thread_name |-> IF index_thread_name # "" THEN index_thread_name
                           ELSE "~ " \o index_name \o " Index",
     intro_text |-> IF intro_text # "" THEN intro_text ELSE "~ Index of " \o index_name,
     sort_by_tags |-> sort_by_tags, preferred_tags |-> preferred_tags,
     use_character_sorting |-> FALSE, priority_tag |-> priority_tag,
     sort_by_title_pattern |-> sort_by_title_pattern,
     title_grouping_pattern |-> title_grouping_pattern]

\* the threads users post, and the intro texts admins configure
\* (thread i of EngineThreads has id i)
EngineThreads == << Attr("a", << "Pin" >>, WideUrl), Attr("B", <<>>, WideUrl) >>
IntroTexts == {"", "hello"}

\* positions of the threads of the forum with the id (the name)
WithId(threads, id) == {p \in 1..Len(threads) : threads[p].id = id}
WithName(threads, name) == {p \in 1..Len(threads) : threads[p].name = name}
FirstOf(ps) == CHOOSE p \in ps : \A q \in ps : p <= q

\* the thread ids a rendered text mentions
IdsIn(cs) == {l.tid : l \in Range(Flatten(cs))} \ {0}
\* ids are never reused: a new thread gets an id that no thread has and that
\* no cache and no posted message mentions
UsedIds ==
    {forum[p].id : p \in 1..Len(forum)} \cup {index_thread_ids} \cup IdsIn(last_chunks)
    \cup UNION {IdsIn([m \in 1..Len(forum[p].messages) |-> forum[p].messages[m].content]) :
                    p \in 1..Len(forum)}
\* the id of a newly created index thread
FreshId == CHOOSE i \in (Len(EngineThreads) + 1)..(Len(EngineThreads) + Cardinality(UsedIds) + 1) :
              i \notin UsedIds /\ \A j \in (Len(EngineThreads) + 1)..(i - 1) : j \in UsedIds

NewThread(id, name, tags, url, messages) ==
    [id |-> id, name |-> name, tags |-> tags, url |-> url, archived |-> FALSE,
     messages |-> messages]

RemoveAt(seq, p) == SubSeq(seq, 1, p - 1) \o SubSeq(seq, p + 1, Len(seq))

\* the forum with one more thread: the platform lists threads by age, which
\* is the order of their ids
WithThread(threads, thread) ==
    LET Older(t) == t.id < thread.id
        Newer(t) == t.id > thread.id
    IN  SelectSeq(threads, Older) \o << thread >> \o SelectSeq(threads, Newer)

\* the index thread of the stored definition, as users see it: by name
IndexThreadAt ==
    IF definition = NoDefinition THEN {}
    ELSE WithName(forum, definition.index_thread_name)

Init ==
    /\ forum = <<>>
    /\ definition = NoDefinition
    /\ available_tags = AvailableTags("*")
    /\ chunks = <<>>
    /\ group_chunks = <<>>
    /\ pc = "idle"
    /\ index_thread_ids = 0
    /\ last_chunks = <<>>
    /\ run = NoRun
    /\ writes = 0
    /\ failed = 0
    /\ failures = 0
    /\ unchanged = FALSE
    /\ compared = FALSE
    /\ restarted = FALSE
    /\ data = EmptyData
    /\ sweep = NoSweep
    /\ retry = NoRetry
    /\ view = NoView
    /\ approval = NoApproval
    /\ dice_data = NoDiceData
    /\ editor = NoEditor
    /\ cycles = NoCycles

\* a user posts a thread in the forum
AddThread ==
    /\ pc = "idle"
    /\ \E id \in 1..Len(EngineThreads) :
          /\ id \notin UsedIds
          /\ forum' = WithThread(forum, NewThread(id, EngineThreads[id].name,
                                                  EngineThreads[id].tags,
                                                  EngineThreads[id].url, <<>>))
    /\ unchanged' = FALSE
    /\ restarted' = FALSE
    /\ UNCHANGED <<definition, available_tags, data, sweep, other, chunks, group_chunks, pc, index_thread_ids,
                   last_chunks, run, writes, failed, failures, compared>>

\* a thread of the forum is deleted (the index thread too)
RemoveThread ==
    /\ pc = "idle"
    /\ \E p \in 1..Len(forum) : forum' = RemoveAt(forum, p)
    /\ unchanged' = FALSE
    /\ restarted' = FALSE
    /\ UNCHANGED <<definition, available_tags, data, sweep, other, chunks, group_chunks, pc, index_thread_ids,
                   last_chunks, run, writes, failed, failures, compared>>

\* a moderator deletes a message of the index thread
DeleteMessage ==
    /\ pc = "idle"
    /\ \E p \in IndexThreadAt : \E m \in 1..Len(forum[p].messages) :
          forum' = [forum EXCEPT ![p].messages = RemoveAt(@, m)]
    /\ UNCHANGED <<definition, available_tags, data, sweep, other, chunks, group_chunks, pc, engine>>

\* the platform posts a system message in the index thread (a pin notice)
SystemMessage ==
    /\ pc = "idle"
    /\ \E p \in IndexThreadAt :
          /\ Cardinality({m \in 1..Len(forum[p].messages) :
                              forum[p].messages[m].type = "system"}) < MaxSystemMessages
          /\ forum' = [forum EXCEPT ![p].messages = Append(@, Message("system", Text("pinned")))]
    /\ UNCHANGED <<definition, available_tags, data, sweep, other, chunks, group_chunks, pc, engine>>

\* the process restarts: IndexManager.__init__ starts with empty caches
Restart ==
    /\ pc = "idle"
    /\ index_thread_ids' = 0
    /\ last_chunks' = <<>>
    /\ unchanged' = FALSE
    /\ restarted' = (unchanged \/ restarted)
    /\ UNCHANGED <<forum, definition, available_tags, data, sweep, other, chunks, group_chunks, pc, run, writes,
                   failed, failures, compared>>

(***************************************************************************)
(* The resync engine: commands, the sweep, post_or_edit_index              *)
(***************************************************************************)
\* an external call succeeds or fails
Outcomes == IF failures < MaxFailures THEN {TRUE, FALSE} ELSE {TRUE}

\* post_or_edit_index is entered
StartRun(config, new_intro) ==
    /\ run' = [NoRun EXCEPT !.config = config,
                            !.second = unchanged /\ config = definition,
                            !.after_restart = restarted /\ config = definition,
                            !.primed = compared, !.new_intro = new_intro]
    /\ writes' = 0
    /\ failed' = 0
    /\ pc' = "ensure"
    /\ UNCHANGED failures

\* post_or_edit_index is left, by a return or by an exception
EndRun(got_to_comparison) ==
    /\ pc' = "done"
    /\ unchanged' = TRUE
    /\ compared' = got_to_comparison
    /\ restarted' = FALSE

\* update_index_task: the sweep over the stored definitions
UpdateIndexTask ==
    /\ pc = "idle"
    /\ definition # NoDefinition
    /\ StartRun(definition, FALSE)
    /\ UNCHANGED <<forum, definition, available_tags, data, sweep, other, chunks, group_chunks, index_thread_ids,
                   last_chunks, unchanged, compared, restarted>>

\* refresh_index, from the refresh command: False without a definition
RefreshIndex ==
    /\ pc = "idle"
    /\ IF definition = NoDefinition THEN UNCHANGED <<pc, run, writes, failed, failures>>
       ELSE StartRun(definition, FALSE)
    /\ UNCHANGED <<forum, definition, available_tags, data, sweep, other, chunks, group_chunks, index_thread_ids,
                   last_chunks, unchanged, compared, restarted>>

\* the options admins give to the add command (intro_text,
\* sort_by_title_pattern, title_grouping_pattern) and to the edit modal
\* (sort_by_title_pattern, title_grouping_pattern)
AddRequests ==
    {<< "", FALSE, "" >>, << "hello", FALSE, "" >>, << "hello", TRUE, "" >>,
     << "hello", TRUE, "(" >>}
EditRequests == {<< FALSE, "" >>, << TRUE, "" >>, << TRUE, "(" >>}

\* self.config.add_index(...) and refresh_index of the command handlers
StoreAndRefresh(config) ==
    /\ definition' = config
    /\ unchanged' = (unchanged /\ config = definition)
    /\ StartRun(config, definition # NoDefinition /\ config.intro_text # definition.intro_text)

\* the bug of storing what the admin gave without looking at the pattern
IndexAddUnvalidated(intro_text, sort_by_title_pattern, title_grouping_pattern) ==
    /\ pc = "idle"
    /\ StoreAndRefresh(add_index("Lore", FALSE, <<>>, "", intro_text, "pin",
                                 sort_by_title_pattern, title_grouping_pattern))
    /\ UNCHANGED <<forum, available_tags, data, sweep, other, chunks, group_chunks, index_thread_ids, last_chunks,
                   compared, restarted>>

\* index_add with the given options: validation, add_index, refresh_index
IndexAddWith(intro_text, sort_by_title_pattern, title_grouping_pattern) ==
    /\ pc = "idle"
    /\ IF sort_by_title_pattern /\ title_grouping_pattern = ""
       THEN UNCHANGED <<definition, pc, run, writes, failed, failures, unchanged>>
       ELSE StoreAndRefresh(add_index("Lore", FALSE, <<>>, "", intro_text, "pin",
                                      sort_by_title_pattern, title_grouping_pattern))
    /\ UNCHANGED <<forum, available_tags, data, sweep, other, chunks, group_chunks, index_thread_ids, last_chunks,
                   compared, restarted>>

IndexAdd == \E r \in AddRequests : IndexAddWith(r[1], r[2], r[3])

\* str(config.get("use_character_sorting", False)).lower() of the modal, and
\* the truth of a str in "if use_character_sorting:" of build_index_text
str_lower(flag) == IF flag THEN "true" ELSE "false"
truth(text) == text # ""

\* the values IndexEditModal keeps for the fields it does not show; the
\* definition holds of use_character_sorting the truth the builders see
preserved(config, stored) ==
    [config EXCEPT !.use_character_sorting = truth(str_lower(stored.use_character_sorting))]

\* IndexEditModal.on_submit with the given options, for the index the edit
\* command found: validation, add_index with the other values as the modal
\* kept them, refresh_index
IndexEditWith(sort_by_title_pattern, title_grouping_pattern) ==
    /\ pc = "idle"
    /\ definition # NoDefinition
    /\ IF sort_by_title_pattern /\ title_grouping_pattern = ""
       THEN UNCHANGED <<definition, pc, run, writes, failed, failures, unchanged>>
       ELSE StoreAndRefresh(preserved(add_index("Lore", definition.sort_by_tags,
                                                definition.preferred_tags,
                                                definition.index_thread_name,
                                                definition.intro_text, definition.priority_tag,
                                                sort_by_title_pattern, title_grouping_pattern),
                                      definition))
    /\ UNCHANGED <<forum, available_tags, data, sweep, other, chunks, group_chunks, index_thread_ids, last_chunks,
                   compared, restarted>>

IndexEdit == \E r \in EditRequests : IndexEditWith(r[1], r[2])

\* index_remove: the definition goes, and both caches of the key
IndexRemove ==
    /\ pc = "idle"
    /\ definition # NoDefinition
    /\ definition' = NoDefinition
    /\ index_thread_ids' = 0
    /\ last_chunks' = <<>>
    /\ unchanged' = FALSE
    /\ restarted' = FALSE
    /\ UNCHANGED <<forum, available_tags, data, sweep, other, chunks, group_chunks, pc, run, writes, failed, failures,
                   compared>>

\* where a cycle waits while other handlers run: the asyncio.sleep after
\* ensure_index_thread and the fetch of the archived threads ("build"), the
\* fetch of the messages ("fetch")
RemovePoints == {"build", "fetch"}

\* index_remove while a cycle for the index is in flight: the cycle goes on
\* with the config it was called with
IndexRemoveInFlight ==
    /\ pc \in RemovePoints
    /\ definition # NoDefinition
    /\ definition' = NoDefinition
    /\ index_thread_ids' = 0
    /\ last_chunks' = <<>>
    /\ unchanged' = FALSE
    /\ restarted' = FALSE
    /\ run' = [run EXCEPT !.second = FALSE, !.after_restart = FALSE]
    /\ UNCHANGED <<forum, available_tags, data, sweep, other, chunks, group_chunks, pc, writes, failed, failures,
                   compared>>

\* ensure_index_thread, and the "if not thread: return" of its caller
EnsureIndexThread ==
    /\ pc = "ensure"
    /\ LET name == run.config.index_thread_name
           active == {p \in 1..Len(forum) : ~forum[p].archived}
           cached == WithId(forum, index_thread_ids) \cap active
           named == WithName(forum, name) \cap active
           archived == WithName(forum, name) \ active
           Found(id) ==
               /\ index_thread_ids' = id
               /\ run' = [run EXCEPT !.thread = id]
               /\ pc' = "build"
               /\ UNCHANGED <<forum, writes, failed, failures, unchanged, compared, restarted>>
       IN  IF index_thread_ids # 0 /\ cached # {} THEN Found(index_thread_ids)
           ELSE IF named # {} THEN Found(forum[FirstOf(named)].id)
           ELSE \E fetched \in Outcomes :
                   IF ~fetched
                   THEN /\ failed' = failed + 1
                        /\ failures' = failures + 1
                        /\ EndRun(FALSE)
                        /\ UNCHANGED <<forum, index_thread_ids, run, writes>>
                   ELSE IF archived # {}
                   THEN Found(forum[FirstOf(archived)].id)
                   ELSE \E created \in Outcomes :
                           /\ writes' = writes + 1
                           /\ IF created
                              THEN /\ forum' = WithThread(forum,
                                          NewThread(FreshId, name, <<>>, ShortUrl,
                                              << Message("default",
                                                         Text(run.config.intro_text)) >>))
                                   /\ index_thread_ids' = FreshId
                                   /\ run' = [run EXCEPT !.thread = FreshId]
                                   /\ pc' = "build"
                                   /\ UNCHANGED <<failed, failures, unchanged, compared, restarted>>
                              ELSE /\ failed' = failed + 1
                                   /\ failures' = failures + 1
                                   /\ EndRun(FALSE)
                                   /\ UNCHANGED <<forum, index_thread_ids, run>>
    /\ UNCHANGED <<definition, available_tags, data, sweep, other, chunks, group_chunks, last_chunks>>

\* a comparison by identity: a freshly built list is never the cached object
no_changes_by_identity(built, last) == FALSE

\* "if chunks == self.last_chunks.get(index_key, [])": equal in count and
\* content, in order
no_changes(built, last) == built = last

\* the bug of a cache that is written when the writes are done
cached_after_writes(built, last) == last

\* self.last_chunks[index_key] = chunks, right after the comparison
cached_after_build(built, last) == built

\* build_index_text, the fingerprint comparison and its commit
BuildChunks ==
    /\ pc = "build"
    /\ \E collected \in Outcomes :
          IF ~collected
          THEN /\ failed' = failed + 1
               /\ failures' = failures + 1
               /\ EndRun(FALSE)
               /\ UNCHANGED <<chunks, last_chunks>>
          ELSE /\ chunks' = build_index_text(forum, available_tags, run.config,
                                              index_thread_ids)
               /\ IF no_changes(chunks', last_chunks)
                  THEN EndRun(TRUE) /\ UNCHANGED last_chunks
                  ELSE /\ last_chunks' = cached_after_build(chunks', last_chunks)
                       /\ pc' = "fetch"
                       /\ UNCHANGED <<unchanged, compared, restarted>>
               /\ UNCHANGED <<failed, failures>>
    /\ UNCHANGED <<forum, definition, available_tags, data, sweep, other, group_chunks, index_thread_ids, run,
                   writes>>

\* the thread object post_or_edit_index works on, and its messages as the
\* platform holds them, oldest first
ThreadAt == FirstOf(WithId(forum, run.thread))
Live == forum[ThreadAt].messages
Send(content) == [forum EXCEPT ![ThreadAt].messages = Append(@, Message("default", content))]
Edit(k, content) == [forum EXCEPT ![ThreadAt].messages[k].content = content]

\* rate_limited_message_history(thread) and messages.reverse()
FetchMessages ==
    /\ pc = "fetch"
    /\ \E fetched \in Outcomes :
          IF fetched
          THEN /\ run' = [run EXCEPT !.messages = Live, !.i = 0]
               /\ pc' = IF Live # <<>> THEN "intro" ELSE "create_all"
               /\ UNCHANGED <<failed, failures, unchanged, compared, restarted>>
          ELSE /\ failed' = failed + 1
               /\ failures' = failures + 1
               /\ EndRun(TRUE)
               /\ UNCHANGED run
    /\ UNCHANGED <<forum, definition, available_tags, data, sweep, other, chunks, group_chunks, index_thread_ids,
                   last_chunks, writes>>

\* Step 1, and again in Step 3: the first non-system message is to hold the
\* intro text; the fetched message objects keep the content they were
\* fetched with
EnsureIntro ==
    /\ pc \in {"intro", "intro2"}
    /\ LET messages == run.messages
           editable == {k \in 1..Len(messages) : messages[k].type = "default"}
           intro_text == Text(run.config.intro_text)
       IN  IF editable # {} /\ messages[FirstOf(editable)].content # intro_text
           THEN \E edited \in Outcomes :
                   /\ writes' = writes + 1
                   /\ forum' = IF edited THEN Edit(FirstOf(editable), intro_text) ELSE forum
                   /\ failed' = IF edited THEN failed ELSE failed + 1
                   /\ failures' = IF edited THEN failures ELSE failures + 1
           ELSE IF editable = {}
           THEN \E sent \in Outcomes :
                   /\ writes' = writes + 1
                   /\ forum' = IF sent THEN Send(intro_text) ELSE forum
                   /\ failed' = IF sent THEN failed ELSE failed + 1
                   /\ failures' = IF sent THEN failures ELSE failures + 1
           ELSE UNCHANGED <<forum, writes, failed, failures>>
    /\ pc' = IF pc = "intro2" THEN "chunks"
             ELSE IF Len(run.messages) < Len(chunks) + 1 THEN "placeholders"
             ELSE "intro2"
    /\ run' = [run EXCEPT !.i = 0]
    /\ UNCHANGED <<definition, available_tags, data, sweep, other, chunks, group_chunks, index_thread_ids,
                   last_chunks, unchanged, compared, restarted>>

\* Step 2: one placeholder is sent for each missing message
SendPlaceholder ==
    /\ pc = "placeholders"
    /\ run.i < Len(chunks) + 1 - Len(run.messages)
    /\ \E sent \in Outcomes :
          /\ forum' = IF sent THEN Send(Placeholder) ELSE forum
          /\ failed' = IF sent THEN failed ELSE failed + 1
          /\ failures' = IF sent THEN failures ELSE failures + 1
    /\ writes' = writes + 1
    /\ run' = [run EXCEPT !.i = @ + 1]
    /\ UNCHANGED <<definition, available_tags, data, sweep, other, chunks, group_chunks, pc, index_thread_ids,
                   last_chunks, unchanged, compared, restarted>>

\* Step 2: the messages are fetched again
Refetch ==
    /\ pc = "placeholders"
    /\ run.i = Len(chunks) + 1 - Len(run.messages)
    /\ \E fetched \in Outcomes :
          IF fetched
          THEN /\ run' = [run EXCEPT !.messages = Live, !.i = 0]
               /\ pc' = "intro2"
               /\ UNCHANGED <<failed, failures, unchanged, compared, restarted>>
          ELSE /\ failed' = failed + 1
               /\ failures' = failures + 1
               /\ EndRun(TRUE)
               /\ UNCHANGED run
    /\ UNCHANGED <<forum, definition, available_tags, data, sweep, other, chunks, group_chunks, index_thread_ids,
                   last_chunks, writes>>

\* after the chunk loop: Step 4 if there are messages to delete
AfterChunks ==
    IF Len(run.messages) > Len(chunks) + 1
    THEN /\ pc' = "delete"
         /\ run' = [run EXCEPT !.i = Len(chunks) + 1, !.deleted = 0]
         /\ UNCHANGED <<unchanged, compared, restarted>>
    ELSE EndRun(TRUE) /\ UNCHANGED run

\* Step 3: chunk i goes into message i + 1, or is sent if there is none; a
\* system message cannot be edited
EditChunk ==
    /\ pc = "chunks"
    /\ IF run.i < Len(chunks)
       THEN LET chunk == chunks[run.i + 1]
                msg_index == run.i + 1
            IN  /\ IF msg_index < Len(run.messages)
                   THEN \E edited \in IF run.messages[msg_index + 1].type = "system"
                                      THEN {FALSE} ELSE Outcomes :
                           /\ forum' = IF edited THEN Edit(msg_index + 1, chunk) ELSE forum
                           /\ failed' = IF edited THEN failed ELSE failed + 1
                           /\ failures' = IF edited \/ edited \notin Outcomes
                                          THEN failures ELSE failures + 1
                   ELSE \E sent \in Outcomes :
                           /\ forum' = IF sent THEN Send(chunk) ELSE forum
                           /\ failed' = IF sent THEN failed ELSE failed + 1
                           /\ failures' = IF sent THEN failures ELSE failures + 1
                /\ writes' = writes + 1
                /\ run' = [run EXCEPT !.i = @ + 1]
                /\ UNCHANGED <<pc, unchanged, compared, restarted>>
       ELSE AfterChunks /\ UNCHANGED <<forum, writes, failed, failures>>
    /\ UNCHANGED <<definition, available_tags, data, sweep, other, chunks, group_chunks, index_thread_ids,
                   last_chunks>>

\* Step 4: the fetched messages past the last chunk are deleted
DeleteExtra ==
    /\ pc = "delete"
    /\ IF run.i < Len(run.messages)
       THEN /\ \E deleted \in Outcomes :
                  /\ forum' = IF deleted
                              THEN [forum EXCEPT ![ThreadAt].messages =
                                                     RemoveAt(@, run.i + 1 - run.deleted)]
                              ELSE forum
                  /\ failed' = IF deleted THEN failed ELSE failed + 1
                  /\ failures' = IF deleted THEN failures ELSE failures + 1
                  /\ run' = [run EXCEPT !.i = @ + 1,
                                        !.deleted = IF deleted THEN @ + 1 ELSE @]
            /\ writes' = writes + 1
            /\ UNCHANGED <<pc, unchanged, compared, restarted>>
       ELSE EndRun(TRUE) /\ UNCHANGED <<forum, run, writes, failed, failures>>
    /\ UNCHANGED <<definition, available_tags, data, sweep, other, chunks, group_chunks, index_thread_ids,
                   last_chunks>>

\* no message in the thread: the intro and the chunks are sent, in one try
CreateAll ==
    /\ pc = "create_all"
    /\ IF run.i <= Len(chunks)
       THEN \E sent \in Outcomes :
               /\ writes' = writes + 1
               /\ IF sent
                  THEN /\ forum' = Send(IF run.i = 0 THEN Text(run.config.intro_text)
                                        ELSE chunks[run.i])
                       /\ run' = [run EXCEPT !.i = @ + 1]
                       /\ UNCHANGED <<pc, failed, failures, unchanged, compared, restarted>>
                  ELSE /\ failed' = failed + 1
                       /\ failures' = failures + 1
                       /\ EndRun(TRUE)
                       /\ UNCHANGED <<forum, run>>
       ELSE EndRun(TRUE) /\ UNCHANGED <<forum, run, writes, failed, failures>>
    /\ UNCHANGED <<definition, available_tags, data, sweep, other, chunks, group_chunks, index_thread_ids,
                   last_chunks>>

\* the caller of post_or_edit_index goes on; the locals of the call are gone
Return ==
    /\ pc = "done"
    /\ pc' = "idle"
    /\ run' = NoRun
    /\ chunks' = <<>>
    /\ writes' = 0
    /\ failed' = 0
    /\ UNCHANGED <<failures, forum, definition, available_tags, data, sweep, other, group_chunks, index_thread_ids,
                   last_chunks, unchanged, compared, restarted>>

Next ==
    \/ AddThread \/ RemoveThread \/ DeleteMessage \/ SystemMessage \/ Restart
    \/ UpdateIndexTask \/ RefreshIndex \/ IndexAdd \/ IndexEdit \/ IndexRemove
    \/ EnsureIndexThread \/ BuildChunks \/ FetchMessages \/ EnsureIntro
    \/ SendPlaceholder \/ Refetch \/ EditChunk \/ DeleteExtra \/ CreateAll \/ Return

Spec == Init /\ [][Next]_vars

\* the commands and the cycle, with the remove command also taken while a
\* cycle is in flight
NextInFlight ==
    \/ AddThread \/ RemoveThread \/ DeleteMessage
    \/ RefreshIndex \/ IndexAdd \/ IndexRemove \/ IndexRemoveInFlight
    \/ EnsureIndexThread \/ BuildChunks \/ FetchMessages \/ EnsureIntro
    \/ SendPlaceholder \/ Refetch \/ EditChunk \/ DeleteExtra \/ CreateAll \/ Return

SpecInFlight == Init /\ [][NextInFlight]_vars

(***************************************************************************)
(* The sweep (update_index_task)                                           *)
(*                                                                         *)
(* sweep.indexes is the dict get_indexes() returned when the sweep         *)
(* started, sweep.idx the position of the loop in it, and sweep.log what   *)
(* became of each index the loop has taken up.                             *)
(***************************************************************************)
\* the loop goes to its next item, or ends
next_index(s) ==
    IF s.idx < Len(s.indexes) THEN [s EXCEPT !.idx = @ + 1, !.stage = "next"]
    ELSE [s EXCEPT !.stage = "ended"]
logged(s, outcome) ==
    [s EXCEPT !.log = Append(SubSeq(@, 1, s.idx - 1),
                             [key |-> s.indexes[s.idx].key, outcome |-> outcome])]

\* the bug of a loop body without its try/except
after_post_unguarded(s, raised) ==
    IF raised THEN [logged(s, "failed") EXCEPT !.stage = "ended"]
    ELSE IF s.idx < Len(s.indexes) THEN [logged(s, "completed") EXCEPT !.stage = "sleep"]
    ELSE next_index(logged(s, "completed"))

\* the await of post_or_edit_index is over: it returned, and the loop sleeps
\* unless the index was the last, or it raised, and the except clause prints
after_post(s, raised) ==
    IF raised THEN next_index(logged(s, "failed"))
    ELSE IF s.idx < Len(s.indexes) THEN [logged(s, "completed") EXCEPT !.stage = "sleep"]
    ELSE next_index(logged(s, "completed"))

\* the task fires: indexes = self.config.get_indexes()
SweepStart ==
    /\ sweep.stage \in {"idle", "ended"}
    /\ sweep' = next_index([stage |-> "next", indexes |-> IndexConfig_get_indexes(data),
                            idx |-> 0, log |-> <<>>])
    /\ UNCHANGED <<rest, data>>

\* the head of the loop body: the guild and the forum are looked up, and
\* post_or_edit_index is called unless one of them is missing (continue)
SweepTake ==
    /\ sweep.stage = "next"
    /\ \E found \in BOOLEAN :
          sweep' = IF found THEN [logged(sweep, "running") EXCEPT !.stage = "running"]
                   ELSE next_index(logged(sweep, "skipped"))
    /\ UNCHANGED <<rest, data>>

\* post_or_edit_index returns or raises
SweepPosted ==
    /\ sweep.stage = "running"
    /\ \E raised \in BOOLEAN : sweep' = after_post(sweep, raised)
    /\ UNCHANGED <<rest, data>>

\* await asyncio.sleep(2.0) between two indexes is over
SweepSlept ==
    /\ sweep.stage = "sleep"
    /\ sweep' = next_index(sweep)
    /\ UNCHANGED <<rest, data>>

NextConfig ==
    AddIndex \/ RemoveIndex \/ AddCharacterForum \/ RemoveCharacterForum
        \/ AddGroupIndex \/ RemoveGroupIndex
SpecConfig == Init /\ [][NextConfig]_vars

\* the add command, taken with one index name while sweeps run
AddIndexLore == \E g \in GuildIds, f \in ChannelIds : AddIndexCall(g, f, "Lore")

NextSweep ==
    AddIndexLore \/ RemoveIndex \/ SweepStart \/ SweepTake \/ SweepPosted \/ SweepSlept
SpecSweep == Init /\ [][NextSweep]_vars

(***************************************************************************)
(* Two overlapping calls of post_or_edit_index for the index key           *)
(*                                                                         *)
(* A step runs one call from one await to the next.  The writes of a call  *)
(* that passed the comparison (EnsureIntro to CreateAll above) are one     *)
(* step here.  build_index_text reads the forum when its fetch of the      *)
(* archived threads returns.                                               *)
(***************************************************************************)
frame_cycles ==
    <<definition, available_tags, chunks, group_chunks, pc, run, writes, failed, failures,
      unchanged, compared, restarted, data, sweep, retry, ui>>

\* a refresh command, or the sweep, calls post_or_edit_index
CycleStart(c) ==
    /\ cycles[c].at = "idle"
    /\ definition # NoDefinition
    /\ cycles' = [cycles EXCEPT ![c].at = "ensure"]
    /\ UNCHANGED <<frame_cycles, forum, index_thread_ids, last_chunks>>

\* ensure_index_thread up to its first await: the cached id, then the active
\* threads by name
CycleLookup(c) ==
    /\ cycles[c].at = "ensure"
    /\ LET active == {p \in 1..Len(forum) : ~forum[p].archived}
           cached == WithId(forum, index_thread_ids) \cap active
           named == WithName(forum, definition.index_thread_name) \cap active
       IN  IF index_thread_ids # 0 /\ cached # {}
           THEN /\ cycles' = [cycles EXCEPT ![c].at = "sleep", ![c].thread = index_thread_ids]
                /\ UNCHANGED index_thread_ids
           ELSE IF named # {}
           THEN /\ cycles' = [cycles EXCEPT ![c].at = "sleep",
                                            ![c].thread = forum[FirstOf(named)].id]
                /\ index_thread_ids' = forum[FirstOf(named)].id
           ELSE /\ cycles' = [cycles EXCEPT ![c].at = "archived"]
                /\ UNCHANGED index_thread_ids
    /\ UNCHANGED <<frame_cycles, forum, last_chunks>>

\* rate_limited_archived_threads returns (or raises): an archived thread of
\* the name is the index thread, else create_thread is called
CycleArchived(c) ==
    /\ cycles[c].at = "archived"
    /\ LET archived == {p \in WithName(forum, definition.index_thread_name) :
                           forum[p].archived}
       IN  \E fetched \in Outcomes :
              IF ~fetched
              THEN cycles' = [cycles EXCEPT ![c].at = "done"] /\ UNCHANGED index_thread_ids
              ELSE IF archived # {}
              THEN /\ cycles' = [cycles EXCEPT ![c].at = "sleep",
                                               ![c].thread = forum[FirstOf(archived)].id]
                   /\ index_thread_ids' = forum[FirstOf(archived)].id
              ELSE cycles' = [cycles EXCEPT ![c].at = "create"] /\ UNCHANGED index_thread_ids
    /\ UNCHANGED <<frame_cycles, forum, last_chunks>>

\* forum.create_thread returns the new thread, or fails for good
CycleCreate(c) ==
    /\ cycles[c].at = "create"
    /\ \E created \in Outcomes :
          IF created
          THEN /\ forum' = WithThread(forum,
                              NewThread(FreshId, definition.index_thread_name, <<>>, ShortUrl,
                                        << Message("default", Text(definition.intro_text)) >>))
               /\ index_thread_ids' = FreshId
               /\ cycles' = [cycles EXCEPT ![c].at = "sleep", ![c].thread = FreshId,
                                           ![c].created = @ + 1]
          ELSE /\ cycles' = [cycles EXCEPT ![c].at = "done"]
               /\ UNCHANGED <<forum, index_thread_ids>>
    /\ UNCHANGED <<frame_cycles, last_chunks>>

\* the sleep is over: build_index_text, the comparison and the commit
CycleBuild(c) ==
    /\ cycles[c].at = "sleep"
    /\ LET built == build_index_text(forum, available_tags, definition, index_thread_ids)
       IN  IF no_changes(built, last_chunks)
           THEN /\ cycles' = [cycles EXCEPT ![c].at = "done", ![c].chunks = built]
                /\ UNCHANGED last_chunks
           ELSE /\ cycles' = [cycles EXCEPT ![c].at = "write", ![c].chunks = built,
                                            ![c].passed = TRUE]
                /\ last_chunks' = cached_after_build(built, last_chunks)
    /\ UNCHANGED <<frame_cycles, forum, index_thread_ids>>

\* the fetch of the messages and the edits, sends and deletes of the call
CycleWrite(c) ==
    /\ cycles[c].at = "write"
    /\ cycles' = [cycles EXCEPT ![c].at = "done", ![c].writes = 1]
    /\ UNCHANGED <<frame_cycles, forum, index_thread_ids, last_chunks>>

\* both calls have returned
CyclesReturn ==
    /\ \A c \in Cycles : cycles[c].at = "done"
    /\ cycles' = NoCycles
    /\ UNCHANGED <<frame_cycles, forum, index_thread_ids, last_chunks>>

\* an index is configured and was never built
InitCycles ==
    /\ forum = <<>>
    /\ definition = add_index("Lore", FALSE, <<>>, "", "", "pin", FALSE, "")
    /\ available_tags = AvailableTags("*")
    /\ chunks = <<>>
    /\ group_chunks = <<>>
    /\ pc = "idle"
    /\ index_thread_ids = 0
    /\ last_chunks = <<>>
    /\ run = NoRun
    /\ writes = 0
    /\ failed = 0
    /\ failures = 0
    /\ unchanged = FALSE
    /\ compared = FALSE
    /\ restarted = FALSE
    /\ data = EmptyData
    /\ sweep = NoSweep
    /\ retry = NoRetry
    /\ view = NoView
    /\ approval = NoApproval
    /\ dice_data = NoDiceData
    /\ editor = NoEditor
    /\ cycles = NoCycles

NextCycles ==
    \/ AddThread \/ RemoveThread
    \/ \E c \in Cycles :
          \/ CycleStart(c) \/ CycleLookup(c) \/ CycleArchived(c) \/ CycleCreate(c)
          \/ CycleBuild(c) \/ CycleWrite(c)
    \/ CyclesReturn
SpecCycles == InitCycles /\ [][NextCycles]_vars

NextRetry == RetryCall \/ RetryAttempt \/ RetrySleep
SpecRetry == Init /\ [][NextRetry]_vars

NextView == GroupIndexSetup \/ ViewOpen \/ AddForumsSelect \/ RemoveForumsSelect \/ _on_save
SpecView == Init /\ [][NextView]_vars

Approve == \E a \in Admins : ApproveClick(a) \/ ApproveRecord(a) \/ ApproveEdit(a)
Reject == \E a \in Admins : RejectClick(a) \/ RejectEdit(a)
NextApproval == SendApprovalRequest \/ Approve \/ Reject
SpecApproval == Init /\ [][NextApproval]_vars

Reply ==
    \E r \in Replies :
        \/ \E content \in {"", "new text"} : ReplyArrives(r, content)
        \/ ReplyEdit(r)
        \/ ReplyPop(r)
NextEditor == Tick \/ ReactionAdd \/ ReactionStore \/ Reply \/ CleanupExpired \/ CleanupPop
SpecEditor == Init /\ [][NextEditor]_vars

(***************************************************************************)
(* Reading a rendering back                                                *)
(***************************************************************************)
\* the threads the builders were run on
Collected == collect_threads(forum, 0)
ThreadOf(tid) == CHOOSE t \in Range(forum) : t.id = tid

\* the header and entry lines of a text, in order
Content(lines) == SelectSeq(lines, LAMBDA l : l.kind \in {"header", "entry"})

\* the section line i belongs to: the number of header lines up to i
SectionAt(lines, i) == Cardinality({h \in 1..i : lines[h].kind = "header"})
EntriesIn(lines, sec) ==
    {i \in 1..Len(lines) : lines[i].kind = "entry" /\ SectionAt(lines, i) = sec}
Headers(lines) == SelectSeq(lines, LAMBDA l : l.kind = "header")

\* the entry carries the tag (case-insensitively)
Carries(thread, tag) ==
    tag # "" /\ \E k \in 1..Len(thread.tags) : lower(thread.tags[k]) = lower(tag)
\* a's title is not after b's, case-insensitively
TitleLE(a, b) == ~StrLess(lower(b.name), lower(a.name))
\* priority-tagged first, then by title
PriorityThenTitle(a, b, tag) ==
    /\ Carries(b, tag) => Carries(a, tag)
    /\ (Carries(a, tag) <=> Carries(b, tag)) => TitleLE(a, b)
\* the entry line shows the leadership marker
IsLeader(line) == StartsWith(line.key, "~ ")

\* every collected entry has exactly one entry line among the lines
EachOnce(lines) ==
    /\ \A t \in Range(Collected) :
          Cardinality({i \in 1..Len(lines) : lines[i].kind = "entry" /\ lines[i].tid = t.id}) = 1
    /\ Cardinality({i \in 1..Len(lines) : lines[i].kind = "entry"}) = Len(Collected)

(***************************************************************************)
(* The resync engine                                                       *)
(***************************************************************************)
\* the contents of the messages of the index thread the run worked on, oldest
\* first, and what the rendered message contract asks them to be
Posted == [m \in 1..Len(Live) |-> Live[m].content]
Rendered == << Text(run.config.intro_text) >> \o chunks
\* the run has ended and none of its external calls failed
CycleDone == pc = "done" /\ failed = 0 /\ WithId(forum, run.thread) # {}

C2_RenderedContract == CycleDone => Posted = Rendered

\* C3: after index_add has stored a different intro text for an existing
\* definition and refreshed the index with no external call failing, the
\* first message of the index thread is the newly configured intro text,
\* also when the chunk list is the one of the previous cycle.
C3_IntroTracksConfig ==
    (CycleDone /\ run.new_intro) =>
        (Posted # <<>> /\ Posted[1] = Text(run.config.intro_text))

(***************************************************************************)
(* Chunking                                                                *)
(***************************************************************************)
\* C4: every chunk returned by build_index_text is at most 1900 characters
\* long, in every grouping mode and for every set of entries (so a group of
\* 1901 characters is spread over two chunks).
C4_ChunkBound ==
    pc = "built" => \A i \in 1..Len(chunks) : TextLen(chunks[i]) <= MaxChunkLen

\* C5: the chunks, put together in order, have exactly the header and entry
\* lines of the rendered text, each line once, whole, and in the original
\* order -- for build_index_text and for the group builders that use
\* _split_text_into_chunks.
C5_Lossless ==
    /\ pc = "built" =>
          Content(Flatten(chunks)) = Content(index_text(Collected, available_tags, definition))
    /\ pc = "group_built" =>
          Content(Flatten(group_chunks))
              = Content(group_index_text(Collected, available_tags, definition))

\* a text of several sections was cut into several chunks, and a blank
\* separator line went at the cut
C5_Witness ==
    /\ pc = "built"
    /\ Len(chunks) >= 2
    /\ Len(Headers(Flatten(chunks))) >= 2
    /\ Len(Flatten(chunks)) < Len(index_text(Collected, available_tags, definition))

(***************************************************************************)
(* Entries and their order                                                 *)
(***************************************************************************)
\* grouping mode none, as the index commands store it
PlainList ==
    /\ pc = "built"
    /\ ModeOf(definition) = "none"
    /\ ~definition.sort_by_title_pattern
    /\ Collected # <<>>

\* C6 (as stated): with grouping mode none the chunks form one list of
\* exactly the input entries, each once, ordered case-insensitively by title.
C6_TitleOrder ==
    PlainList =>
        LET lines == Flatten(chunks)
        IN  /\ \A i \in 1..Len(lines) : lines[i].kind = "entry"
            /\ EachOnce(lines)
            /\ \A i, j \in 1..Len(lines) :
                  i < j => TitleLE(ThreadOf(lines[i].tid), ThreadOf(lines[j].tid))

\* C6 (amended): with grouping mode none the chunks form one list of exactly
\* the input entries, each once; the entries carrying the configured
\* priority tag come first, and each of the two parts is ordered
\* case-insensitively by title (so the whole list is ordered by title when no
\* priority tag is configured or carried).
C6_PriorityThenTitle ==
    PlainList =>
        LET lines == Flatten(chunks)
        IN  /\ \A i \in 1..Len(lines) : lines[i].kind = "entry"
            /\ EachOnce(lines)
            /\ \A i, j \in 1..Len(lines) :
                  i < j => PriorityThenTitle(ThreadOf(lines[i].tid), ThreadOf(lines[j].tid),
                                             definition.priority_tag)

\* a plain list over several chunks in which a priority entry precedes an
\* entry of an earlier title, and two titles differ in case
C6_Witness ==
    /\ PlainList
    /\ Len(chunks) >= 2
    /\ LET lines == Flatten(chunks)
       IN  \E i, j \in 1..Len(lines) :
              /\ i < j
              /\ Carries(ThreadOf(lines[i].tid), definition.priority_tag)
              /\ ThreadOf(lines[i].tid).name = "B"
              /\ ThreadOf(lines[j].tid).name = "a"

\* the header of the group the builders put a collected thread in
GroupHeaderOf(thread) ==
    LET court_order == COURT_ORDER(definition.preferred_tags)
        g == character_group(thread, court_order)
        k == extract_title_group_key(thread.name, definition.title_grouping_pattern)
    IN  IF ModeOf(definition) = "character"
        THEN IF g = "inactive" THEN "Inactive Characters"
             ELSE IF g = "other" THEN "Other"
             ELSE court_order[CHOOSE i \in 1..Len(court_order) : court_order[i][1] = g][2]
        ELSE IF ModeOf(definition) = "title" THEN IF HasKey(k) THEN k[1] ELSE "Other"
        ELSE IF ModeOf(definition) = "tag" THEN group_tag(thread, definition.preferred_tags)
        ELSE ""

\* two entry lines of the same rendered group, the first above the second
SameGroup(lines, i, j) ==
    /\ i < j
    /\ lines[i].kind = "entry" /\ lines[j].kind = "entry"
    /\ SectionAt(lines, i) = SectionAt(lines, j)

ExpectedTagGroup(thread, preferred_tags) ==
    LET Matches(t) == \E p \in 1..Len(preferred_tags) : lower(preferred_tags[p]) = lower(t)
        matching == SelectSeq(thread.tags, Matches)
    IN  IF preferred_tags # <<>>
        THEN IF matching # <<>> THEN matching[1] ELSE "Other"
        ELSE IF thread.tags # <<>> THEN thread.tags[1] ELSE "Other"

\* C8: in tag mode every collected entry is rendered exactly once, under the
\* header of its group, for every preferred-tags list and every combination
\* of tag names.
C8_ExactlyOnce ==
    (pc = "built" /\ ModeOf(definition) = "tag") =>
        LET lines == Flatten(chunks)
        IN  \A t \in Range(Collected) :
                LET at == {i \in 1..Len(lines) : lines[i].kind = "entry" /\ lines[i].tid = t.id}
                IN  /\ Cardinality(at) = 1
                    /\ \A i \in at : \E h \in 1..i :
                          /\ lines[h].kind = "header"
                          /\ SectionAt(lines, h) = SectionAt(lines, i)
                          /\ lines[h].key = ExpectedTagGroup(t, definition.preferred_tags)

\* the place of a group key in the preferred list; one past it for the rest
PreferredRank(key, preferred_tags) ==
    LET hits == {p \in 1..Len(preferred_tags) : lower(preferred_tags[p]) = lower(key)}
    IN  IF hits = {} THEN Len(preferred_tags) + 1
        ELSE CHOOSE p \in hits : \A q \in hits : p <= q

\* preferred groups first, in the configured order, then the others by name
InPreferredOrder(cs, preferred_tags) ==
    LET H == Headers(Flatten(cs))
    IN  \A i, j \in 1..Len(H) :
            i < j =>
                LET ri == PreferredRank(H[i].key, preferred_tags)
                    rj == PreferredRank(H[j].key, preferred_tags)
                IN  /\ ri <= rj
                    /\ (ri = rj /\ ri > Len(preferred_tags))
                          => ~StrLess(lower(H[j].key), lower(H[i].key))

\* C9: with preferred tags configured for a tag-grouped index, the groups
\* matching a preferred tag are rendered first, in the configured order, then
\* the remaining groups alphabetically -- by build_index_text and by
\* _build_tag_index_text.
C9_PreferredOrder ==
    (ModeOf(definition) = "tag" /\ definition.preferred_tags # <<>>) =>
        /\ pc = "built" => InPreferredOrder(chunks, definition.preferred_tags)
        /\ pc = "group_built" => InPreferredOrder(group_chunks, definition.preferred_tags)

Terminal(key) == key \in {"Other", "Inactive Characters"}

\* C10: in every grouping mode a rendered "Other" group or inactive group
\* comes after every ordinary group, and "Other" before the inactive group.
C10_TerminalLast ==
    pc = "built" =>
        LET H == Headers(Flatten(chunks))
        IN  \A i, j \in 1..Len(H) :
                i < j =>
                    /\ Terminal(H[i].key) => Terminal(H[j].key)
                    /\ H[i].key = "Inactive Characters" => H[j].key # "Other"

(***************************************************************************)
(* Title patterns                                                          *)
(***************************************************************************)
\* a title of the form <letters><day>-<number> or <text>-<number>, read by
\* hand: the text after its dash, the letters it starts with, the digits
\* between the letters and the dash
AfterDash(name) == SubSeq(name, FirstDash(name) + 1, Len(name))
LeadLetters(name) == SubSeq(name, 1, LetterRunEnd(name, 1))
DayDigits(name) == SubSeq(name, LetterRunEnd(name, 1) + 1, FirstDash(name) - 1)
IsDateCode(name) ==
    /\ Len(LeadLetters(name)) \in 2..4
    /\ DayDigits(name) # ""
    /\ \A i \in 1..Len(DayDigits(name)) : IsDigit(At(DayDigits(name), i))

DateNumberBuilt ==
    /\ pc = "built"
    /\ ModeOf(definition) = "title"
    /\ definition.title_grouping_pattern = "date-number"
    /\ definition \in DateDefinitions

\* every entry is listed once, under the header of the number after its dash
UnderItsNumber(lines) ==
    /\ EachOnce(lines)
    /\ \A i \in 1..Len(lines) :
          lines[i].kind = "entry" =>
              \E h \in 1..i :
                  /\ lines[h].kind = "header"
                  /\ SectionAt(lines, h) = SectionAt(lines, i)
                  /\ lines[h].key = AfterDash(ThreadOf(lines[i].tid).name)
    /\ \A h, k \in 1..Len(lines) :
          (lines[h].kind = "header" /\ lines[k].kind = "header" /\ h # k)
              => lines[h].key # lines[k].key

\* C11 (as stated): with the "date-number" pattern the entries with the same
\* number after the dash are in one group keyed by that number, whatever
\* their letter/day prefix, and for every set of titles the groups are
\* rendered in increasing numeric order of their keys.
C11_NumericGroupOrder ==
    DateNumberBuilt =>
        LET lines == Flatten(chunks)
            H == Headers(lines)
        IN  /\ UnderItsNumber(lines)
            /\ \A i, j \in 1..Len(H) : i < j => ParseInt(H[i].key) < ParseInt(H[j].key)

\* the first collected entry of the group of a number, and the place of the
\* group in the order: groups whose first entry has a date code come first,
\* by the letters of the code, then the number, then the day; then the groups
\* whose first entry has a plain number, by the number
FirstWithNumber(key) ==
    Collected[CHOOSE i \in 1..Len(Collected) :
                 /\ AfterDash(Collected[i].name) = key
                 /\ \A j \in 1..(i - 1) : AfterDash(Collected[j].name) # key]
DateCodeRank(name) ==
    IF IsDateCode(name)
    THEN [cls |-> 0, s |-> upper(LeadLetters(name)), a |-> ParseInt(AfterDash(name)),
          b |-> ParseInt(DayDigits(name))]
    ELSE [cls |-> 1, s |-> "", a |-> ParseInt(AfterDash(name)), b |-> 0]

\* C11 (amended): with the "date-number" pattern the entries with the same
\* number after the dash are in one group keyed by that number, whatever
\* their letter/day prefix; the groups are ordered by the title of the first
\* entry collected into each: date codes first, by letters, then by number
\* (numerically), then by day (numerically); then the groups of plain
\* numbers, by number (numerically).
C11_DateCodeGroupOrder ==
    DateNumberBuilt =>
        LET lines == Flatten(chunks)
            H == Headers(lines)
        IN  /\ UnderItsNumber(lines)
            /\ \A i, j \in 1..Len(H) :
                  i < j => GroupKeyLess(DateCodeRank(FirstWithNumber(H[i].key).name),
                                        DateCodeRank(FirstWithNumber(H[j].key).name))

\* group 9 is rendered before group 582, and group 582 holds entries of two
\* prefixes
C11_Witness ==
    /\ DateNumberBuilt
    /\ LET lines == Flatten(chunks)
           H == Headers(lines)
       IN  /\ Len(H) = 2 /\ H[1].key = "9" /\ H[2].key = "582"
           /\ {ThreadOf(lines[i].tid).name : i \in EntriesIn(lines, 2)}
                  = {"SD1-582", "WD2-582"}

\* build_index_text has returned for a definition whose title grouping
\* pattern is a regex that does not compile
InvalidRegexBuilt ==
    /\ pc = "built"
    /\ definition.sort_by_title_pattern
    /\ ~definition.use_character_sorting
    /\ definition.title_grouping_pattern \in InvalidRegexes
    /\ Collected # <<>>

\* C12: with a title grouping pattern that is an invalid regex the index
\* build does not raise: _extract_title_group_key gives no key for every
\* title, and build_index_text returns chunks in which every entry is listed
\* once under the single group "Other", so that the cycle goes on with them.
C12_InvalidRegexFallsBack ==
    InvalidRegexBuilt =>
        LET lines == Flatten(chunks)
        IN  /\ \A t \in Range(Collected) :
                  extract_title_group_key(t.name, definition.title_grouping_pattern) = <<>>
            /\ Headers(lines) = << HeaderLine("", "Other") >>
            /\ lines[1].kind = "header"
            /\ EachOnce(lines)

\* three entries, one of them with a number in its title, were built under an
\* invalid regex
C12_Witness ==
    /\ InvalidRegexBuilt
    /\ Len(Collected) = 3
    /\ \E t \in Range(Collected) : \E i \in 1..Len(t.name) : IsDigit(At(t.name, i))
    /\ Len(Headers(Flatten(chunks))) = 1

(***************************************************************************)
(* Fixed taxonomy                                                          *)
(***************************************************************************)
\* the key of the header an entry line is rendered under ("" above all)
HeaderOver(lines, i) ==
    IF SectionAt(lines, i) = 0 THEN "" ELSE Headers(lines)[SectionAt(lines, i)].key

\* C14: the fixed-taxonomy builder renders every collected entry exactly
\* once, for every preferred-tags list: under the inactive group when it has
\* an inactive tag, else under the first configured court its normalized
\* tags match, else under "Other"; and inside a court group the entries with
\* the leadership tag are listed before all others.
C14_OneGroupPerEntry ==
    (pc = "built" /\ ModeOf(definition) = "character") =>
        LET lines == Flatten(chunks)
        IN  /\ EachOnce(lines)
            /\ \A i \in 1..Len(lines) :
                  lines[i].kind = "entry" =>
                      HeaderOver(lines, i) = GroupHeaderOf(ThreadOf(lines[i].tid))
            /\ \A i, j \in 1..Len(lines) :
                  (SameGroup(lines, i, j) /\ ~Terminal(HeaderOver(lines, i)))
                      => (IsLeader(lines[j]) => IsLeader(lines[i]))

(***************************************************************************)
(* Commands, caches and failures                                           *)
(***************************************************************************)
\* title-pattern sorting is asked for and the pattern is missing, or invalid
MissingPattern(sort_by_title_pattern, pattern) == sort_by_title_pattern /\ pattern = ""
InvalidPattern(sort_by_title_pattern, pattern) ==
    sort_by_title_pattern /\ pattern \in InvalidRegexes

\* the step is the add (the edit) command with such a request
AddStepMissing ==
    \E r \in AddRequests : MissingPattern(r[2], r[3]) /\ IndexAddWith(r[1], r[2], r[3])
AddStepInvalid ==
    \E r \in AddRequests : InvalidPattern(r[2], r[3]) /\ IndexAddWith(r[1], r[2], r[3])
EditStepMissing ==
    \E r \in EditRequests : MissingPattern(r[1], r[2]) /\ IndexEditWith(r[1], r[2])
EditStepInvalid ==
    \E r \in EditRequests : InvalidPattern(r[1], r[2]) /\ IndexEditWith(r[1], r[2])
\* the command was rejected: nothing stored, nothing cached, no cycle started
NoMutation == UNCHANGED <<definition, index_thread_ids, last_chunks>> /\ pc' = "idle"

\* C13 (as stated): an add or edit request with title-pattern sorting enabled
\* and a missing or an invalid (non-compiling) pattern is rejected, and the
\* stored definition and the cached index state are what they were.
C13_BadPatternRejected ==
    [][/\ (AddStepMissing \/ AddStepInvalid) => NoMutation
       /\ (EditStepMissing \/ EditStepInvalid) => NoMutation]_vars

\* C13 (amended): an add or edit request with title-pattern sorting enabled
\* and no pattern is rejected, and the stored definition and the cached index
\* state are what they were (a pattern that does not compile is not looked
\* at by these handlers: it is stored and the index is refreshed).
C13_MissingPatternRejected ==
    [][/\ AddStepMissing => NoMutation
       /\ EditStepMissing => NoMutation]_vars

\* a definition is stored and its index state is cached when a command is
\* taken: the state a rejected request is made in, and leaves as it is
C13_Witness ==
    /\ pc = "idle"
    /\ definition # NoDefinition
    /\ ~definition.sort_by_title_pattern
    /\ index_thread_ids # 0
    /\ Len(last_chunks) = 2

\* the threads build_index_text is to list: the forum's threads, active and
\* archived, but those with a reserved name and the index thread of the cycle
Listable ==
    {forum[p].id : p \in {q \in 1..Len(forum) :
                              lower(forum[q].name)
                                  \notin {lower(n) : n \in DEFAULT_EXCLUDE_NAMES}}}
        \ {run.thread}

\* C15: the entries a cycle renders are exactly the forum's active and
\* archived threads, minus the threads with a reserved name (compared
\* case-insensitively), minus the index thread of the index itself; the index
\* thread is never an entry of its own index.
C15_CollectedEntries ==
    (pc \notin {"idle", "start", "built", "group_built"} /\ chunks # <<>>)
        => IdsIn(chunks) = Listable

\* C17: once the remove command has completed, the index key has no cached
\* index thread id and no cached fingerprint, until the index is added
\* again -- also when a cycle for the key was in flight during the remove.
C17_RemovedMeansEvicted ==
    definition = NoDefinition => (index_thread_ids = 0 /\ last_chunks = <<>>)

\* C18: the first cycle after a restart of the process, with the thread set
\* and the definition as the last cycle before the restart left them (that
\* cycle having compared and stored its fingerprint), issues no edit, send
\* or delete call.
C18_FingerprintSurvivesRestart == (run.after_restart /\ run.primed) => writes = 0

\* a message operation of the cycle (intro edit or send, placeholder send,
\* chunk edit or send, delete) fails, and operations of the cycle remain
MessageOpFails ==
    /\ pc \in {"intro", "intro2", "placeholders", "chunks", "delete", "create_all"}
    /\ writes' = writes + 1
    /\ failed' = failed + 1
    /\ pc = "create_all" => run.i < Len(chunks)

\* C19: the failure of one message operation does not end the cycle: the
\* remaining message operations are attempted, on every path, also when the
\* thread has no message yet and the intro and the chunks are sent fresh.
C19_FailureIsolated == [][MessageOpFails => pc' # "done"]_vars

(***************************************************************************)
(* The configuration store and the sweep                                   *)
(***************************************************************************)
\* the step leaves the definitions of the keys other than (g, f), the
\* character-forum lists and the group indexes as they are
OthersKept(g, f) ==
    /\ \A g2 \in GuildIds, f2 \in ChannelIds :
          <<g2, f2>> # <<g, f>> =>
              IndexConfig_get_index(data', g2, f2) = IndexConfig_get_index(data, g2, f2)
    /\ data'.character_forums = data.character_forums
    /\ data'.group_indexes = data.group_indexes

\* C16: the store keeps one definition per (guild, forum): after add_index
\* get_index returns the definition just added, after remove_index it returns
\* nothing, any other call leaves what it returns as it is (so it returns
\* the definition of the most recent add not followed by a remove), and add
\* and remove leave the other keys, the character-forum lists and the group
\* indexes unchanged.
C16_OneDefinitionPerKey ==
    [][\A g \in GuildIds, f \in ChannelIds :
          /\ \A n \in IndexNames :
                AddIndexCall(g, f, n) =>
                    /\ IndexConfig_get_index(data', g, f) = index_definition(g, f, n)
                    /\ OthersKept(g, f)
          /\ RemoveIndexCall(g, f) =>
                /\ IndexConfig_get_index(data', g, f) = None
                /\ OthersKept(g, f)
          /\ (~RemoveIndexCall(g, f) /\ \A n \in IndexNames : ~AddIndexCall(g, f, n)) =>
                IndexConfig_get_index(data', g, f) = IndexConfig_get_index(data, g, f)
          /\ Cardinality({i \in 1..Len(data'.indexes) :
                             data'.indexes[i].key = index_key(g, f)}) <= 1]_vars

\* guild 1 forum 11 and guild 11 forum 1 both have a definition, under
\* different names, next to a character-forum list and a group index
C16_Witness ==
    /\ IndexConfig_get_index(data, 1, 11).index_name = "Maps"
    /\ IndexConfig_get_index(data, 11, 1).index_name = "Lore"
    /\ get_character_forums(data, 1) = << 11, 1 >>
    /\ get_group_index(data, 11, 11) # None

\* C20: in one sweep the indexes configured when it started are taken up one
\* at a time in configuration order, an index is taken up only when the one
\* before it has completed, failed or been skipped, and when the sweep has
\* ended every index has been taken up, whichever of them raised.
C20_SweepInOrder ==
    /\ Len(sweep.log) <= Len(sweep.indexes)
    /\ \A i \in 1..Len(sweep.log) :
          /\ sweep.log[i].key = sweep.indexes[i].key
          /\ sweep.log[i].outcome = "running" =>
                (i = Len(sweep.log) /\ sweep.stage = "running")
    /\ sweep.stage = "ended" => Len(sweep.log) = Len(sweep.indexes)

\* a sweep over three indexes has ended; the second raised, the third
\* completed after it
C20_Witness ==
    /\ sweep.stage = "ended"
    /\ Len(sweep.indexes) = 3
    /\ sweep.log[1].outcome = "completed"
    /\ sweep.log[2].outcome = "failed"
    /\ sweep.log[3].outcome = "completed"

(***************************************************************************)
(* Bounded retry                                                           *)
(***************************************************************************)
\* the error is a rate limit: the platform's status 429, or the report of one
RateLimit(e) == (e.http /\ e.status = 429) \/ e.text = "Rate limit exceeded"

\* C21: rate_limit_retry calls func at most max_retries times and calls it
\* again only after a rate-limit error; it returns with the first call that
\* succeeds; the wait before a retry is at most max_delay; an error other
\* than a rate limit is raised after the one call that failed, and a rate
\* limit on the last attempt is raised.
C21_BoundedRetry ==
    /\ Len(retry.calls) <= retry.max_retries
    /\ \A i \in 1..(Len(retry.calls) - 1) : retry.calls[i] # Ok /\ RateLimit(retry.calls[i])
    /\ retry.state = "returned" => retry.calls[Len(retry.calls)] = Ok
    /\ retry.state = "sleeping" => retry.delay <= retry.max_delay
    /\ (retry.state = "raised" /\ retry.calls # <<>>) =>
          /\ retry.calls[Len(retry.calls)] # Ok
          /\ RateLimit(retry.calls[Len(retry.calls)]) => Len(retry.calls) = retry.max_retries
    /\ (retry.state \in {"sleeping", "calling"} /\ retry.calls # <<>>) =>
          RateLimit(retry.calls[Len(retry.calls)])

(***************************************************************************)
(* The fingerprint and overlapping cycles                                  *)
(***************************************************************************)
\* the cycle has passed the comparison and is at its fetch or its writes
AfterCommit ==
    pc \notin {"idle", "start", "built", "group_built", "ensure", "build", "done"}

\* C22: a cycle whose chunks differ from the cached ones has set the cache to
\* its chunks when it comes to the fetch of the messages, before any of its
\* edits, sends and deletes, and no step of the cycle, failed or not, changes
\* the cache again; a following cycle that builds the same chunks ends
\* without a call, whatever the thread holds.
C22_CommitBeforeWrites ==
    [][/\ AfterCommit => (last_chunks = chunks /\ last_chunks' = chunks)
       /\ (pc = "build" /\ pc' = "fetch") => (last_chunks' = chunks' /\ Posted' = Posted)
       /\ (pc = "build" /\ pc' = "done" /\ run.second /\ run.primed
              /\ chunks' = last_chunks) => writes' = 0]_vars

\* the cycle before failed on a write after it had committed its chunks; the
\* cycle that followed built the same chunks and ended without a call, and
\* the thread does not hold the chunks
C22_Witness ==
    /\ pc = "done" /\ run.second /\ run.primed
    /\ chunks = last_chunks /\ chunks # <<>>
    /\ writes = 0 /\ failed = 0 /\ failures > 0
    /\ WithId(forum, run.thread) # {}
    /\ Posted # Rendered

\* C23: of two calls of post_or_edit_index that overlap on the index key and
\* build the same chunk list, at most one passes the comparison with the
\* cached chunks and issues writes, however the two are interleaved.
C23_OneWriterPerContent ==
    (cycles[1].passed /\ cycles[2].passed) => cycles[1].chunks # cycles[2].chunks

\* both calls have built the same chunks of two entries; one passed the
\* comparison and wrote, the other ended without a write
C23_Witness ==
    /\ \A c \in Cycles : cycles[c].at = "done"
    /\ cycles[1].chunks = cycles[2].chunks
    /\ Len(Flatten(cycles[1].chunks)) >= 2
    /\ cycles[1].passed /\ cycles[1].writes = 1
    /\ ~cycles[2].passed /\ cycles[2].writes = 0

\* C28: the forum never holds more than one thread that ensure_index_thread
\* created for the index key, also when two cycles overlap while there is no
\* index thread yet.
C28_OneIndexThread ==
    Cardinality(WithName(forum, definition.index_thread_name)) <= 1

(***************************************************************************)
(* System messages                                                         *)
(***************************************************************************)
\* C24: a cycle that found a system message as the oldest message of the
\* index thread, and had no failing call, leaves the intro text in the first
\* editable message of the thread and every chunk in a later message of its
\* own: no chunk edit of the cycle has overwritten the intro.
C24_IntroKeptAfterSystemMessage ==
    (CycleDone /\ run.messages # <<>> /\ run.messages[1].type = "system") =>
        LET editable == {k \in 1..Len(Live) : Live[k].type = "default"}
        IN  /\ editable # {}
            /\ Live[FirstOf(editable)].content = Text(run.config.intro_text)
            /\ \A i \in 1..Len(chunks) :
                  \E k \in editable \ {FirstOf(editable)} : Live[k].content = chunks[i]

(***************************************************************************)
(* The edit modal                                                          *)
(***************************************************************************)
\* the step is a submit of the edit modal that stores the definition
EditStepStored ==
    \E r \in EditRequests : ~MissingPattern(r[1], r[2]) /\ IndexEditWith(r[1], r[2])

\* C25: a submit of the edit modal that stores the definition leaves the
\* fields the modal does not show with the effect they had: the priority tag,
\* the index thread name, the intro text, and whether the index is built with
\* character sorting.
C25_EditKeepsHiddenFields ==
    [][EditStepStored =>
          /\ definition'.priority_tag = definition.priority_tag
          /\ definition'.index_thread_name = definition.index_thread_name
          /\ definition'.intro_text = definition.intro_text
          /\ definition'.use_character_sorting = definition.use_character_sorting]_vars

(***************************************************************************)
(* The forums of a group index                                             *)
(***************************************************************************)
\* the step is a remove selection that was rejected
RemoveRejected ==
    /\ RemoveForumsSelect
    /\ view'.said = "Cannot remove all forums"

\* C26: the list of source forums of the view is never empty, and a remove
\* selection that would remove every forum is rejected with the list holding
\* exactly the forums it held before the selection.
C26_ForumsKept ==
    /\ [](view.open => view.current_forum_ids # <<>>)
    /\ [][RemoveRejected =>
             Range(view'.current_forum_ids) = Range(view.current_forum_ids)]_vars

(***************************************************************************)
(* The order of the collected threads                                      *)
(***************************************************************************)
\* the orders the platform may return the threads of the forum in
Orders == {p \in [1..Len(forum) -> 1..Len(forum)] : Range(p) = 1..Len(forum)}
Reordered(p) == [i \in 1..Len(forum) |-> forum[p[i]]]
DistinctTitles == \A i, j \in 1..Len(forum) : i # j => forum[i].name # forum[j].name

\* C27: for a fixed index definition and a fixed set of threads with pairwise
\* distinct titles, build_index_text returns the same chunks whatever the
\* order in which the platform returns the threads, in every grouping mode.
C27_OrderIndependent ==
    (pc = "built" /\ DistinctTitles) =>
        \A p \in Orders : build_index_text(Reordered(p), available_tags, definition, 0) = chunks

(***************************************************************************)
(* Dice-challenge approvals                                                *)
(***************************************************************************)
\* C29: for one approval request, under every interleaving of Approve and
\* Reject clicks, _record_result is applied at most once (the winner's wins
\* and total games and the loser's losses and total games grow by at most
\* 1), and nothing is recorded for a request whose first click was Reject.
C29_RecordedAtMostOnce ==
    approval.requests > 0 =>
        LET w == approval.winner
            l == approval.loser
        IN  /\ approval.records <= 1
            /\ dice_data[w].wins <= approval.submitted[w].wins + 1
            /\ dice_data[w].total_games <= approval.submitted[w].total_games + 1
            /\ dice_data[l].losses <= approval.submitted[l].losses + 1
            /\ dice_data[l].total_games <= approval.submitted[l].total_games + 1
            /\ (approval.first = "reject" => approval.records = 0)

(***************************************************************************)
(* Edit sessions                                                           *)
(***************************************************************************)
\* the step is the pop of a reply while a session started later is stored
PopWithLaterSession ==
    \E r \in Replies :
        /\ ReplyPop(r)
        /\ editor.active_edits # NoSession
        /\ editor.active_edits.session > editor.reply[r].edit_info.session

\* C30: each edit session leads to at most one edit of its target message, a
\* reply handled after expires_at never edits, a handled reply removes its
\* session, and the clean-up of an earlier reply never removes a session
\* that was started later.
C30_OneEditPerSession ==
    /\ [](\A i, j \in 1..Len(editor.edits) :
             i # j => editor.edits[i].session # editor.edits[j].session)
    /\ [](\A i \in 1..Len(editor.edits) : ~editor.edits[i].late)
    /\ [][(\E r \in Replies : ReplyPop(r)) => editor'.active_edits = NoSession]_vars
    /\ [][PopWithLaterSession => editor'.active_edits = editor.active_edits]_vars

====
